---- MODULE Spec2Model ----
(***************************************************************************)
(* A model of the currency data pipeline: the Logger buffer, the sources   *)
(* with their health records (BaseDataSource), the DataOrchestrator with   *)
(* its cache, fetch cycle and deep merge, and the ExchangeService health   *)
(* rollup.                                                                 *)
(*                                                                         *)
(* JavaScript runs every piece of code between two awaits to completion,   *)
(* so an action of the model is one such piece: the code from the entry    *)
(* of an async function (or the settling of the promise it awaits) to its  *)
(* next await or to its return.                                            *)
(*                                                                         *)
(* Time is counted in ticks of Date.now(); prices are integers (hundredths *)
(* of the quoted price).                                                   *)
(***************************************************************************)
EXTENDS Integers, Sequences, FiniteSets, TLC

(***************************************************************************)
(* Bounds of the model.                                                    *)
(***************************************************************************)
\* config.cacheTimeoutMs, in ticks (60000 ms or 300000 ms in the source).
CacheTimeoutMs == 2
\* config.healthCheckIntervalMs, in ticks (30000 ms or 120000 ms in the source).
HealthCheckIntervalMs == 1
\* Date.now() stops advancing once a cache window can have closed.
MaxTime == CacheTimeoutMs
\* Logger.maxLogs, the capacity of the log buffer (500 in the source).
maxLogs == 2
\* The longest list of source datasets handed to mergeData on its own.
MaxMergeInputs == 3
\* The longest source list whose service health is read on its own.
MaxRollupSources == 3
\* The longest list of ids handed to getAssetData.
MaxIds == 2
\* The most getInstance calls.
MaxGetInstance == 2
\* The most times an adapter is run on one payload.
MaxAdaptRuns == 2

VARIABLES
  sources,      \* DataOrchestrator.sources: the configured source names, in order
  health,       \* BaseDataSource.health of every source
  cachedData,   \* DataOrchestrator.cachedData
  cacheExpiry,  \* DataOrchestrator.cacheExpiry
  now,          \* Date.now()
  calls,        \* the getStandardizedData calls: position, locals, result
  probes,       \* the checkHealth probes in flight, the round awaiting them,
                \* and the sources whose checkHealth has rejected (raised)
  logs,         \* Logger.logs
  mergeIn,      \* mergeData called on its own: its argument
  mergeOut,     \* mergeData called on its own: its result
  serviceHealth,\* what a client got from ExchangeService.getServiceHealth
  assetData,    \* a client's ExchangeService.getAssetData call and its result
  snapshot,     \* the health snapshot a client holds (BaseDataSource.getHealth)
  facade,       \* ExchangeService.instance, what its constructor has created,
                \* and what the getInstance calls returned
  raw,          \* an adapter called on its own: the raw payload
  adapted,      \* an adapter called on its own: its outcome
  logsRead,     \* what a client got from getLogs
  heap          \* the objects of the datasets, with their identities: the
                \* merge taken with the references it shares and writes to

vars == <<sources, health, cachedData, cacheExpiry, now, calls, probes, logs,
          mergeIn, mergeOut, serviceHealth, assetData, snapshot,
          facade, raw, adapted, logsRead, heap>>

\* The facade, and the adapters and the log reader taken on their own.
unitVars == <<facade, raw, adapted, logsRead, heap>>

\* What the clients of ExchangeService hold.
clientVars == <<serviceHealth, assetData, snapshot>>

(***************************************************************************)
(* data-contracts.ts: the data model.                                      *)
(***************************************************************************)
RateType == {"official", "parallel_market", "interbank", "market"}

HealthStatus == {"healthy", "degraded", "failed"}

Sarf == "Sarf-EGP-API"
Forex == "Forex-Algerie-Web"
Mock == "Mock-Commodities-API"
\* A further IDataSource, named as the one the README's guide adds (a bank's
\* official rates). Its fetch follows the template of BaseDataSource, but it
\* keeps its health record itself: its checkHealth may report failed, the
\* third status of DataSourceHealth, which no source of the repository sets
\* and the orchestrator tests for.
Bank == "Central-Bank-API"

\* The callers of getStandardizedData: the calls of two callers may overlap.
Callers == {"c1", "c2"}

\* A mapping with no key: {} of JavaScript.
EmptyMap == << >>

\* StandardizedRate
Rate(buying, selling, midRate, unit) ==
  [buying |-> buying, selling |-> selling, midRate |-> midRate, unit |-> unit]

\* StandardizedAsset
Asset(identifier, name, type, source, timestamp, rates, historicalData) ==
  [identifier |-> identifier, name |-> name, type |-> type, source |-> source,
   timestamp |-> timestamp, rates |-> rates, historicalData |-> historicalData]

\* One key of a mapping.
Single(k, v) == [x \in {k} |-> v]

\* StandardizedData is { assets }. A dataset object is its assets together
\* with the identity of the object (oid): two objects of equal content are
\* two values. oid 0 is null.
Null == [oid |-> 0, assets |-> EmptyMap]

Data(oid, assets) == [oid |-> oid, assets |-> assets]

(***************************************************************************)
(* app-config: getAppConfig() with NODE_ENV unset.                         *)
(***************************************************************************)
config ==
  [mode |-> "hybrid", cacheTimeoutMs |-> CacheTimeoutMs,
   healthCheckIntervalMs |-> HealthCheckIntervalMs, logLevel |-> "debug"]

(***************************************************************************)
(* Logger.                                                                 *)
(***************************************************************************)
priority == [debug |-> 0, info |-> 1, warn |-> 2, error |-> 3]

LogLevel == {"debug", "info", "warn", "error"}
log_NeverShifts(buf, t, level, component, message) ==
  IF priority[level] < priority[config.logLevel]
  THEN buf
  ELSE Append(buf, [level |-> level,
                    component |-> component, message |-> message])


\* Logger.log: an entry below the configured level is dropped; otherwise it is
\* pushed, and the oldest entry is shifted out when the buffer is over
\* maxLogs. buf is Logger.logs; a component is the pair of its class and the
\* name it was built with, a message the pair of its text and the value
\* interpolated into it. The timestamp of an entry (t, Date.now()) is not
\* kept: nothing reads it, and the order of the entries is that of the buffer.
log(buf, t, level, component, message) ==
  IF priority[level] < priority[config.logLevel]
  THEN buf
  ELSE LET pushed == Append(buf, [level |-> level,
                                  component |-> component, message |-> message])
       IN IF Len(pushed) > maxLogs THEN Tail(pushed) ELSE pushed

getLogs_StrictlyAbove(level) ==
  IF level = ""
  THEN logs
  ELSE SelectSeq(logs, LAMBDA e : priority[e.level] > priority[level])

\* Logger.getLogs: without a level (the empty string stands for the argument
\* left out: both fail the test of line 134) the buffer itself, otherwise
\* the entries of the buffer at or above the level.
getLogs(level) ==
  IF level = ""
  THEN logs
  ELSE SelectSeq(logs, LAMBDA e : priority[e.level] >= priority[level])

(***************************************************************************)
(* DataOrchestrator.mergeData.                                             *)
(***************************************************************************)
ObjectAssign_Replace(target, source) == source

ObjectAssign_TargetWins(target, source) ==
  [k \in (DOMAIN target) \cup (DOMAIN source) |->
     IF k \in DOMAIN target THEN target[k] ELSE source[k]]

\* Object.assign(target, source) on two mappings: every key of source is set
\* in target, the other keys of target stay.
ObjectAssign(target, source) ==
  [k \in (DOMAIN target) \cup (DOMAIN source) |->
     IF k \in DOMAIN source THEN source[k] ELSE target[k]]

mergeOne_NewAssetWins(merged, sourceAssets) ==
  [id \in (DOMAIN merged) \cup (DOMAIN sourceAssets) |->
     IF id \in DOMAIN sourceAssets
     THEN IF id \in DOMAIN merged
          THEN [sourceAssets[id] EXCEPT
                  !.rates = ObjectAssign(merged[id].rates, @)]
          ELSE sourceAssets[id]
     ELSE merged[id]]

mergeOne_KnownIdsOnly(merged, sourceAssets) ==
  IF DOMAIN merged = {} THEN sourceAssets
  ELSE [id \in DOMAIN merged |->
          IF id \in DOMAIN sourceAssets
          THEN [merged[id] EXCEPT
                  !.rates = ObjectAssign(@, sourceAssets[id].rates)]
          ELSE merged[id]]

\* The body of the inner loop, for all asset ids of one source dataset: an id
\* already in merged gets the new asset's rates assigned into its rates, a new
\* id gets the new asset itself.
mergeOne(merged, sourceAssets) ==
  [id \in (DOMAIN merged) \cup (DOMAIN sourceAssets) |->
     IF id \in DOMAIN sourceAssets
     THEN IF id \in DOMAIN merged
          THEN [merged[id] EXCEPT
                  !.rates = ObjectAssign(@, sourceAssets[id].rates)]
          ELSE sourceAssets[id]
     ELSE merged[id]]

RECURSIVE mergeFrom(_, _)
mergeFrom(merged, sourcesData) ==
  IF sourcesData = << >>
  THEN merged
  ELSE mergeFrom(mergeOne(merged, Head(sourcesData)), Tail(sourcesData))

mergeData_FirstOnly(sourcesData) ==
  IF sourcesData = << >> THEN EmptyMap ELSE mergeOne(EmptyMap, Head(sourcesData))

\* mergeData(sourcesData): the assets of the merged dataset. sourcesData is
\* the sequence of the assets mappings of the source datasets.
mergeData(sourcesData) == mergeFrom(EmptyMap, sourcesData)

(***************************************************************************)
(* BaseDataSource and the sources.                                         *)
(***************************************************************************)
\* BaseDataSource constructor: the initial health record (message undefined,
\* written "").
InitialHealth(name) ==
  [source |-> name, status |-> "healthy", lastCheck |-> 0, latency |-> 0,
   message |-> ""]

updateHealth_AlwaysHealthy(name, isSuccess, latency, message) ==
  [source |-> name,
   lastCheck |-> now,
   latency |-> latency,
   message |-> IF message # "" THEN message
               ELSE IF isSuccess THEN "OK" ELSE "Failed",
   status |-> "healthy"]

updateHealth_StickyDegraded(name, isSuccess, latency, message) ==
  [source |-> name,
   lastCheck |-> now,
   latency |-> latency,
   message |-> IF message # "" THEN message
               ELSE IF isSuccess THEN "OK" ELSE "Failed",
   status |-> IF isSuccess /\ health[name].status = "healthy"
              THEN "healthy" ELSE "degraded"]

updateHealth_Escalates(name, isSuccess, latency, message) ==
  [source |-> name,
   lastCheck |-> now,
   latency |-> latency,
   message |-> IF message # "" THEN message
               ELSE IF isSuccess THEN "OK" ELSE "Failed",
   status |-> IF isSuccess THEN "healthy"
              ELSE IF health[name].status = "healthy" THEN "degraded"
              ELSE "failed"]
updateHealth_Sticky(name, isSuccess, latency, message) ==
  [source |-> name,
   lastCheck |-> now,
   latency |-> latency,
   message |-> IF message # "" THEN message
               ELSE IF isSuccess THEN "OK" ELSE "Failed",
   status |-> IF isSuccess /\ health[name].status = "healthy"
              THEN "healthy" ELSE "degraded"]


\* BaseDataSource.updateHealth: the whole record is replaced.
updateHealth(name, isSuccess, latency, message) ==
  [source |-> name,
   lastCheck |-> now,
   latency |-> latency,
   message |-> IF message # "" THEN message
               ELSE IF isSuccess THEN "OK" ELSE "Failed",
   status |-> IF isSuccess THEN "healthy" ELSE "degraded"]

\* BaseDataSource.getHealth: a copy of the record.
getHealth(name) == health[name]

getHealthObject_Live(name) == [live |-> TRUE, value |-> health[name]]

\* The object BaseDataSource.getHealth returns, { ...this.health }: a new
\* object with the values of the record, and not (live) the object
\* this.health refers to.
getHealthObject(name) == [live |-> FALSE, value |-> getHealth(name)]

\* The object a client holds, after updateHealth of the given sources:
\* updateHealth assigns a new object to this.health, so an object that was
\* the record of one of them is it no longer.
Replaced(names) ==
  IF snapshot.taken /\ snapshot.live /\ snapshot.source \in names
  THEN [snapshot EXCEPT !.live = FALSE]
  ELSE snapshot

\* The messages of the errors executeFetch (or the adapter) of a source can
\* throw: here the timeout of AbortSignal.timeout.
FetchErrors(name) ==
  {"The operation was aborted due to timeout"}

\* The assets a source's adapter can return at time t: what the adapter builds
\* from the payloads of the model. An empty payload adapts to no asset.
SourceAssets(name, t) ==
  CASE name = Sarf ->
         {EmptyMap,
          Single("USD_EGP",
                 Asset("USD_EGP", "USD to EGP", "currency", Sarf, t,
                       Single("parallel_market", Rate(5050, 5070, 5060, "EGP")),
                       << >>))}
    [] name = Forex ->
         {EmptyMap,
          Single("EUR_DZD",
                 Asset("EUR_DZD", "Euro to DZD", "currency", Forex, t,
                       Single("parallel_market", Rate(24000, 24200, 24100, "DZD")),
                       << >>))}
    [] name = Bank ->
         {EmptyMap,
          Single("USD_EGP",
                 Asset("USD_EGP", "USD to EGP (Official)", "currency", Bank, 0,
                       Single("official", Rate(3087, 3093, 3090, "EGP")),
                       << >>))}
    [] name = Mock ->
         {[id \in {"OIL_WTI", "GOLD_XAU"} |->
             IF id = "OIL_WTI"
             THEN Asset("OIL_WTI", "WTI Crude Oil", "commodity", Mock, t,
                        Single("market", Rate(7834, 7866, 7850, "USD/bbl")),
                        << >>)
             ELSE Asset("GOLD_XAU", "Gold Spot", "commodity", Mock, t,
                        Single("market", Rate(234605, 235545, 235075, "USD/oz")),
                        << >>)]}

TaggedError_Untagged(name, message) == <<"", message>>

\* Line 36 of BaseDataSource: the error fetchStandardizedData rejects with,
\* `[name] message`.
TaggedError(name, message) == <<name, message>>

\* No error.
NoError == <<"", "">>

\* Whether executeFetch of the source can throw: the mock source only waits
\* and returns its constant payload.
CanThrow(name) == name # Mock

\* What the source's own code logs, synchronously, when executeFetch starts.
executeFetchLog(buf, name) ==
  CASE name = Forex ->
         log(buf, now, "info", <<"DataSource", name>>,
             <<"Fetching HTML content from", name>>)
    [] name = Mock ->
         log(buf, now, "info", <<"DataSource", name>>,
             <<"Simulating fetch for commodity data...", "">>)
    [] OTHER -> buf

\* What the adapter of the source logs in adapt, for n adapted assets.
adaptLog(buf, name, n) ==
  IF name \in {Sarf, Forex}
  THEN log(log(buf, now, "info", <<"adapter", name>>,
               <<"Adapting data from", name>>),
           now, "info", <<"adapter", name>>, <<"Adapted assets", ToString(n)>>)
  ELSE buf

(***************************************************************************)
(* DataOrchestrator.getStandardizedData.                                   *)
(***************************************************************************)
Orchestrator == <<"DataOrchestrator", "">>

\* The position of a call: idle (not called yet); fetching (awaiting
\* fetchStandardizedData of sources[idx], whose executeFetch is in flight);
\* returned; threw. attempts records, for the
\* sources the cycle has passed, what became of each: skipped, fetched (with
\* the assets its fetchStandardizedData resolved to) or threw (with the error
\* it rejected with). While the cycle goes on, was is the status that the
\* source fetched last reported just before its fetch settled ("" when no
\* fetch of the cycle has settled). storedAt is
\* the time at which the call stored its merged dataset in the cache (-1 when
\* it did not).
IdleCall ==
  [pc |-> "idle", idx |-> 0, startTime |-> 0, successfulFetches |-> << >>,
   attempts |-> << >>, was |-> "", result |-> Null, error |-> "",
   storedAt |-> -1]

\* The identities of the dataset objects something still refers to.
LiveOids ==
  {cachedData.oid} \cup {calls[c].result.oid : c \in DOMAIN calls}

\* The identity of a newly created object: one that nothing refers to.
NewOid == CHOOSE n \in 1..(Cardinality(DOMAIN calls) + 2) :
            /\ n \notin LiveOids
            /\ \A m \in 1..(n - 1) : m \in LiveOids

IsSkipped_NotHealthy(h) == h.status # "healthy"

IsSkipped_Never(h) == FALSE

\* Line 31: the test on the health snapshot of a source.
IsSkipped(h) == h.status = "failed"

\* Lines 30-34: from position i of the source list, the first position whose
\* source does not report failed (Len(sources) + 1 when there is none).
RECURSIVE NextAttempt(_)
NextAttempt(i) ==
  IF i > Len(sources) THEN i
  ELSE IF IsSkipped(getHealth(sources[i])) THEN NextAttempt(i + 1)
  ELSE i

\* Line 32: the warnings logged for the failed sources at positions i..k-1.
RECURSIVE SkipLogs(_, _, _)
SkipLogs(buf, i, k) ==
  IF i >= k THEN buf
  ELSE SkipLogs(log(buf, now, "warn", Orchestrator,
                    <<"Skipping failed source", sources[i]>>), i + 1, k)

\* The sources at positions i..k-1, recorded as skipped.
Skipped(i, k) ==
  [j \in 1..(k - i) |-> [source |-> sources[i + j - 1],
                         outcome |-> "skipped",
                         assets |-> EmptyMap,
                         error |-> NoError]]

IsCacheHit_Flipped == cachedData # Null /\ now > cacheExpiry

\* Line 23: the cache hit test.
IsCacheHit == cachedData # Null /\ now < cacheExpiry

HasCache_Always == TRUE

\* Line 50: whether a dataset was cached before.
HasCache == cachedData # Null

IsEmptyResult_Never(merged) == FALSE

\* Line 49: whether the merged dataset has no asset.
IsEmptyResult(merged) == DOMAIN merged = {}

NewExpiry_NoTimeout == now

\* Line 65: the expiry of a dataset stored now.
NewExpiry == now + config.cacheTimeoutMs

Finish_KeepsFresher(c, fetched, tried, buf) ==
  IF IsCacheHit
  THEN /\ logs' = buf
       /\ calls' = [calls EXCEPT ![c] = [IdleCall EXCEPT
                      !.pc = "returned", !.attempts = tried,
                      !.result = cachedData]]
       /\ UNCHANGED <<cachedData, cacheExpiry>>
  ELSE
    LET merged == mergeData(fetched) IN
    IF IsEmptyResult(merged)
    THEN IF HasCache
         THEN /\ logs' = log(buf, now, "error", Orchestrator,
                             <<"All sources failed to provide data. Returning stale cache.", "">>)
              /\ calls' = [calls EXCEPT ![c] = [IdleCall EXCEPT
                             !.pc = "returned", !.attempts = tried,
                             !.result = cachedData]]
              /\ UNCHANGED <<cachedData, cacheExpiry>>
         ELSE /\ logs' = buf
              /\ calls' = [calls EXCEPT ![c] = [IdleCall EXCEPT
                             !.pc = "threw", !.attempts = tried,
                             !.error = "All data sources are unavailable and no cache exists."]]
              /\ UNCHANGED <<cachedData, cacheExpiry>>
    ELSE /\ logs' = log(buf, now, "info", Orchestrator,
                        <<"Successfully merged data. Total unique assets", 
                          ToString(Cardinality(DOMAIN merged))>>)
         /\ cachedData' = Data(NewOid, merged)
         /\ cacheExpiry' = NewExpiry
         /\ calls' = [calls EXCEPT ![c] = [IdleCall EXCEPT
                        !.pc = "returned", !.attempts = tried,
                        !.result = Data(NewOid, merged), !.storedAt = now]]

  \* Lines 30-44, from position i of the source list up to the next await: the
  \* failed sources are skipped, the first other source is fetched (its
  \* fetchStandardizedData runs up to the await of executeFetch), and when no
  \* source is left the cycle ends.

Finish_RenewsStale(c, fetched, tried, buf) ==
  LET merged == mergeData(fetched) IN
  IF IsEmptyResult(merged)
  THEN IF HasCache
       THEN /\ logs' = log(buf, now, "error", Orchestrator,
                           <<"All sources failed to provide data. Returning stale cache.", "">>)
            /\ calls' = [calls EXCEPT ![c] = [IdleCall EXCEPT
                           !.pc = "returned", !.attempts = tried,
                           !.result = cachedData]]
            /\ cachedData' = cachedData
            /\ cacheExpiry' = NewExpiry
       ELSE /\ logs' = buf
            /\ calls' = [calls EXCEPT ![c] = [IdleCall EXCEPT
                           !.pc = "threw", !.attempts = tried,
                           !.error = "All data sources are unavailable and no cache exists."]]
            /\ UNCHANGED <<cachedData, cacheExpiry>>
  ELSE /\ logs' = log(buf, now, "info", Orchestrator,
                      <<"Successfully merged data. Total unique assets", 
                        ToString(Cardinality(DOMAIN merged))>>)
       /\ cachedData' = Data(NewOid, merged)
       /\ cacheExpiry' = NewExpiry
       /\ calls' = [calls EXCEPT ![c] = [IdleCall EXCEPT
                      !.pc = "returned", !.attempts = tried,
                      !.result = Data(NewOid, merged), !.storedAt = now]]

\* Lines 30-44, from position i of the source list up to the next await: the
\* failed sources are skipped, the first other source is fetched (its
\* fetchStandardizedData runs up to the await of executeFetch), and when no
\* source is left the cycle ends.

\* Lines 46-66: the end of the cycle, with the datasets fetched and the log
\* so far.
Finish(c, fetched, tried, buf) ==
  LET merged == mergeData(fetched) IN
  IF IsEmptyResult(merged)
  THEN IF HasCache
       THEN /\ logs' = log(buf, now, "error", Orchestrator,
                           <<"All sources failed to provide data. Returning stale cache.", "">>)
            /\ calls' = [calls EXCEPT ![c] = [IdleCall EXCEPT
                           !.pc = "returned", !.attempts = tried,
                           !.result = cachedData]]
            /\ UNCHANGED <<cachedData, cacheExpiry>>
       ELSE /\ logs' = buf
            /\ calls' = [calls EXCEPT ![c] = [IdleCall EXCEPT
                           !.pc = "threw", !.attempts = tried,
                           !.error = "All data sources are unavailable and no cache exists."]]
            /\ UNCHANGED <<cachedData, cacheExpiry>>
  ELSE /\ logs' = log(buf, now, "info", Orchestrator,
                      <<"Successfully merged data. Total unique assets", 
                        ToString(Cardinality(DOMAIN merged))>>)
       /\ cachedData' = Data(NewOid, merged)
       /\ cacheExpiry' = NewExpiry
       /\ calls' = [calls EXCEPT ![c] = [IdleCall EXCEPT
                      !.pc = "returned", !.attempts = tried,
                      !.result = Data(NewOid, merged), !.storedAt = now]]

\* Lines 30-44, from position i of the source list up to the next await: the
\* failed sources are skipped, the first other source is fetched (its
\* fetchStandardizedData runs up to the await of executeFetch), and when no
\* source is left the cycle ends.
Loop(c, i, fetched, tried, buf) ==
  LET k == NextAttempt(i)
      skipLog == SkipLogs(buf, i, k)
      tried1 == tried \o Skipped(i, k)
  IN IF k <= Len(sources)
     THEN /\ logs' = executeFetchLog(
                       log(skipLog, now, "debug", Orchestrator,
                           <<"Fetching from source", sources[k]>>),
                       sources[k])
          /\ calls' = [calls EXCEPT ![c] = [IdleCall EXCEPT
                         !.pc = "fetching", !.idx = k, !.startTime = now,
                         !.successfulFetches = fetched, !.attempts = tried1,
                         !.was = IF calls[c].pc = "fetching"
                                 THEN getHealth(sources[calls[c].idx]).status
                                 ELSE ""]]
          /\ UNCHANGED <<cachedData, cacheExpiry>>
     ELSE Finish(c, fetched, tried1, skipLog)

\* getStandardizedData is called: lines 22-26, and on a miss the loop up to
\* its first await.
Call(c) ==
  /\ calls[c].pc \in {"idle", "returned", "threw"}
  /\ IF IsCacheHit
     THEN /\ logs' = log(logs, now, "debug", Orchestrator,
                         <<"Returning fresh data from cache.", "">>)
          /\ calls' = [calls EXCEPT ![c] = [IdleCall EXCEPT
                         !.pc = "returned", !.result = cachedData]]
          /\ UNCHANGED <<cachedData, cacheExpiry>>
     ELSE Loop(c, 1, << >>, << >>, logs)
  /\ UNCHANGED <<unitVars, sources, health, now, probes, mergeIn, mergeOut,
                 clientVars>>

\* executeFetch of the source a call awaits returns a payload that adapts to
\* the given assets: BaseDataSource.fetchStandardizedData lines 27-30, then
\* the continuation of getStandardizedData, line 38 and the loop from the
\* next source on. Both continuations run in the turn of the event loop in
\* which the response arrives.
FetchSucceeds(c, assets) ==
  LET name == sources[calls[c].idx] IN
  /\ assets \in SourceAssets(name, now)
  /\ health' = [health EXCEPT
                  ![name] = updateHealth(name, TRUE, now - calls[c].startTime, "")]
  /\ Loop(c, calls[c].idx + 1,
          Append(calls[c].successfulFetches, assets),
          Append(calls[c].attempts,
                 [source |-> name, outcome |-> "fetched", assets |-> assets,
                  error |-> NoError]),
          adaptLog(logs, name, Cardinality(DOMAIN assets)))
  /\ UNCHANGED <<unitVars, sources, now, probes, mergeIn, mergeOut,
                 serviceHealth, assetData>>
  /\ snapshot' = Replaced({name})

LoopCatches_Nothing == FALSE

\* Whether getStandardizedData catches the error of the fetch it awaits: the
\* await is inside the try of lines 35-38 and the catch of line 39 is
\* unconditional.
LoopCatches == TRUE

\* executeFetch (or the adapter) of the source a call awaits throws:
\* BaseDataSource.fetchStandardizedData lines 31-37, then the continuation of
\* getStandardizedData, lines 39-43 and the loop from the next source on; an
\* error that was not caught would reject the call with the source's error.
FetchFails(c, message) ==
  LET name == sources[calls[c].idx] IN
  /\ CanThrow(name)
  /\ message \in FetchErrors(name)
  /\ health' = [health EXCEPT
                  ![name] = updateHealth(name, FALSE, now - calls[c].startTime,
                                         message)]
  /\ IF LoopCatches
     THEN Loop(c, calls[c].idx + 1,
               calls[c].successfulFetches,
               Append(calls[c].attempts,
                      [source |-> name, outcome |-> "threw", assets |-> EmptyMap,
                       error |-> TaggedError(name, message)]),
               log(log(logs, now, "error", <<"DataSource", name>>,
                       <<"Failed to execute data fetch", message>>),
                   now, "warn", Orchestrator, <<"Source failed during fetch.", name>>))
     ELSE /\ logs' = log(logs, now, "error", <<"DataSource", name>>,
                         <<"Failed to execute data fetch", message>>)
          /\ calls' = [calls EXCEPT ![c] = [IdleCall EXCEPT
                         !.pc = "threw",
                         !.attempts = Append(calls[c].attempts,
                            [source |-> name, outcome |-> "threw",
                             assets |-> EmptyMap,
                             error |-> TaggedError(name, message)]),
                         !.error = ToString(TaggedError(name, message))]]
          /\ UNCHANGED <<cachedData, cacheExpiry>>
  /\ UNCHANGED <<unitVars, sources, now, probes, mergeIn, mergeOut,
                 serviceHealth, assetData>>
  /\ snapshot' = Replaced({name})

\* The executeFetch a call awaits settles, one way or the other.
FetchSettles(c) ==
  /\ calls[c].pc = "fetching"
  /\ \/ \E a \in SourceAssets(sources[calls[c].idx], now) : FetchSucceeds(c, a)
     \/ \E m \in FetchErrors(sources[calls[c].idx]) : FetchFails(c, m)

(***************************************************************************)
(* checkHealth of the sources and DataOrchestrator.runHealthChecks.        *)
(***************************************************************************)
\* The messages of the errors a HEAD probe can end with.
ProbeErrors(name) ==
  {"The operation was aborted due to timeout"}

\* MockCommoditiesSource.checkHealth, which awaits nothing.
MockCheckHealth(name) ==
  updateHealth(name, TRUE, 20, "Mock source is always healthy.")

CheckedSources_SkipFailed ==
  {sources[i] : i \in {j \in 1..Len(sources) : ~IsSkipped(getHealth(sources[j]))}}

\* Line 74: the sources runHealthChecks calls checkHealth on,
\* this.sources.map((s) => s.checkHealth()): all of the list.
CheckedSources == {sources[i] : i \in 1..Len(sources)}

RunHealthChecks_Invalidates ==
  /\ ~probes.round
  /\ now >= probes.due
  /\ logs' = log(logs, now, "debug", Orchestrator,
                 <<"Running periodic health checks.", "">>)
  /\ health' = [n \in DOMAIN health |->
                  IF n = Mock /\ n \in CheckedSources
                  THEN MockCheckHealth(n) ELSE health[n]]
  /\ LET pending == CheckedSources \ {Mock} IN
     probes' = [round |-> pending # {}, startTime |-> now,
                due |-> now + config.healthCheckIntervalMs,
                pending |-> pending, raised |-> probes.raised]
  /\ cacheExpiry' = now
  /\ UNCHANGED <<unitVars, sources, cachedData, now, calls, mergeIn, mergeOut,
                 serviceHealth, assetData>>
  /\ snapshot' = Replaced({Mock} \cap CheckedSources)

\* runHealthChecks: checkHealth is called on every source, in order. Each
\* call runs up to its first await, so the mock source has updated its health
\* when map returns and the HEAD probes of the other sources are in flight;
\* the round (Promise.all) is over in the turn in which the last of them
\* settles.
\* setInterval (ExchangeService constructor) calls it every
\* healthCheckIntervalMs, first one interval after construction; the round
\* before has settled by then: the probes time out within 5 s, the interval
\* is 30 s or more.
RunHealthChecks ==
  /\ ~probes.round
  /\ now >= probes.due
  /\ logs' = log(logs, now, "debug", Orchestrator,
                 <<"Running periodic health checks.", "">>)
  /\ health' = [n \in DOMAIN health |->
                  IF n = Mock /\ n \in CheckedSources
                  THEN MockCheckHealth(n) ELSE health[n]]
  /\ LET pending == CheckedSources \ {Mock} IN
     probes' = [round |-> pending # {}, startTime |-> now,
                due |-> now + config.healthCheckIntervalMs,
                pending |-> pending, raised |-> probes.raised]
  /\ UNCHANGED <<unitVars, sources, cachedData, cacheExpiry, now, calls, mergeIn, mergeOut,
                 serviceHealth, assetData>>
  /\ snapshot' = Replaced({Mock} \cap CheckedSources)

\* checkHealth after its await, the probe having succeeded
\* (SarfCurrencySource lines 34-36, ForexAlgerieSource lines 125-128).
ProbeSucceeds(name) ==
  /\ name \in probes.pending
  /\ health' = [health EXCEPT
                  ![name] = updateHealth(name, TRUE, now - probes.startTime,
                              IF name = Forex THEN "Site is reachable." ELSE "")]
  /\ probes' = [probes EXCEPT !.pending = @ \ {name},
                              !.round = probes.pending # {name}]
  /\ UNCHANGED <<unitVars, sources, cachedData, cacheExpiry, now, calls, logs, mergeIn, mergeOut,
                 serviceHealth, assetData>>
  /\ snapshot' = Replaced({name})

\* The statuses checkHealth of a source can set on a failed probe: the
\* reference sources set degraded (through updateHealth); the bank source may
\* also give up and report failed.
ProbeFailStatus(name) ==
  IF name = Bank THEN {"degraded", "failed"} ELSE {"degraded"}

CheckHealthCatches_Nothing(name) == FALSE

\* Whether checkHealth of the source catches the error of its probe: the try
\* block holds the fetch and the status test, and the catch is unconditional
\* (SarfCurrencySource lines 29-39, ForexAlgerieSource lines 118-132).
CheckHealthCatches(name) == TRUE

\* checkHealth after its await, the probe having failed or timed out
\* (SarfCurrencySource lines 37-39, ForexAlgerieSource lines 129-132): the
\* catch block updates the health; an error that was not caught would reject
\* the promise of checkHealth and leave the health as it is.
ProbeFails(name, message, status) ==
  /\ name \in probes.pending
  /\ message \in ProbeErrors(name)
  /\ status \in ProbeFailStatus(name)
  /\ health' = IF CheckHealthCatches(name)
               THEN [health EXCEPT
                       ![name] = [updateHealth(name, FALSE,
                                               now - probes.startTime, message)
                                  EXCEPT !.status = status]]
               ELSE health
  /\ probes' = [probes EXCEPT !.pending = @ \ {name},
                              !.round = probes.pending # {name},
                              !.raised = IF CheckHealthCatches(name)
                                         THEN @ ELSE @ \cup {name}]
  /\ UNCHANGED <<unitVars, sources, cachedData, cacheExpiry, now, calls, logs, mergeIn, mergeOut,
                 serviceHealth, assetData>>
  /\ snapshot' = Replaced(IF CheckHealthCatches(name) THEN {name} ELSE {})

(***************************************************************************)
(* ExchangeService.getServiceHealth.                                       *)
(***************************************************************************)
\* DataOrchestrator.getHealth
orchestratorGetHealth == [i \in 1..Len(sources) |-> getHealth(sources[i])]

getServiceHealth_AnyFailed ==
  LET hs == orchestratorGetHealth IN
  [status |-> IF \E i \in 1..Len(hs) : hs[i].status = "failed" THEN "failed"
              ELSE IF \E i \in 1..Len(hs) : hs[i].status # "healthy"
                   THEN "degraded"
                   ELSE "healthy",
   sources |-> hs]

getServiceHealth ==
  LET hs == orchestratorGetHealth IN
  [status |-> IF \A i \in 1..Len(hs) : hs[i].status = "failed" THEN "failed"
              ELSE IF \E i \in 1..Len(hs) : hs[i].status # "healthy"
                   THEN "degraded"
                   ELSE "healthy",
   sources |-> hs]

(***************************************************************************)
(* The system.                                                             *)
(***************************************************************************)
\* Date.now() advances.
Tick ==
  /\ now < MaxTime
  /\ now' = now + 1
  /\ UNCHANGED <<unitVars, sources, health, cachedData, cacheExpiry, calls, probes, logs,
                 mergeIn, mergeOut,
                 clientVars>>

SourceNames == {Sarf, Forex, Mock, Bank}

\* The sources of the repository, which extend BaseDataSource: their health
\* changes through updateHealth only.
BaseSources == {Sarf, Forex, Mock}

\* ExchangeService before the first getInstance.
NoInstance ==
  [instance |-> 0, orchestrators |-> 0, timers |-> 0, returned |-> << >>]

\* ExchangeService once its constructor has run: the instance, its
\* orchestrator and its setInterval timer.
OneInstance ==
  [instance |-> 1, orchestrators |-> 1, timers |-> 1, returned |-> << >>]
\* No object allocated: the heap of the specifications that take datasets
\* as values.
NoHeap ==
  [next |-> 1, rates |-> << >>, assets |-> << >>, datasets |-> << >>,
   pos |-> 1, pending |-> << >>, cached |-> 0, cycles |-> 0, returned |-> {}]


\* No client has called anything, on a service that has been constructed.
NoClient ==
  /\ serviceHealth = [read |-> FALSE, status |-> "", sources |-> << >>]
  /\ assetData = [done |-> FALSE, ids |-> << >>, result |-> EmptyMap]
  /\ snapshot = [taken |-> FALSE]
  /\ facade = OneInstance
  /\ raw = << >>
  /\ adapted = << >>
  /\ logsRead = [done |-> FALSE]
  /\ heap = NoHeap

\* The state after construction of an orchestrator over the given sources.
InitWith(list, callers) ==
  /\ sources = list
  /\ health = [n \in SourceNames |-> InitialHealth(n)]
  /\ cachedData = Null
  /\ cacheExpiry = 0
  /\ now = 0
  /\ calls = [c \in callers |-> IdleCall]
  /\ probes = [round |-> FALSE, startTime |-> 0,
               due |-> config.healthCheckIntervalMs, pending |-> {},
               raised |-> {}]
  /\ logs = << >>
  /\ mergeIn = << >>
  /\ mergeOut = [done |-> FALSE, assets |-> EmptyMap]
  /\ NoClient

\* Three sources, whose fetches can all fail, and one caller.
Init == InitWith(<<Sarf, Bank, Forex>>, {"c1"})

\* The two sources ExchangeService configures, and two callers.
InitOverlap == InitWith(<<Sarf, Mock>>, Callers)

\* Two sources with the same asset, the second of which can report failed,
\* and one caller.
InitPair == InitWith(<<Sarf, Bank>>, {"c1"})

\* The three sources of the repository, and one caller.
InitReference == InitWith(<<Sarf, Forex, Mock>>, {"c1"})

Next ==
  \/ \E c \in DOMAIN calls : Call(c)
  \/ \E c \in DOMAIN calls : FetchSettles(c)
  \/ RunHealthChecks
  \/ \E n \in SourceNames : ProbeSucceeds(n)
  \/ \E n \in SourceNames : \E m \in ProbeErrors(n) :
       \E st \in ProbeFailStatus(n) : ProbeFails(n, m, st)
  \/ Tick

Spec == Init /\ [][Next]_vars

SpecOverlap == InitOverlap /\ [][Next]_vars

SpecPair == InitPair /\ [][Next]_vars

SpecReference == InitReference /\ [][Next]_vars

(***************************************************************************)
(* mergeData on its own: the lists of up to MaxMergeInputs source datasets *)
(* over two asset ids and two rate types. The dataset of source k          *)
(* carries k in its names, timestamps, prices and history, so that the     *)
(* origin of every field of the result can be told.                        *)
(***************************************************************************)
MergeIds == {"USD_EGP", "EUR_EGP"}

MergeRateTypes == {"official", "parallel_market"}

\* The source the dataset labelled k comes from.
MergeSourceName(k) ==
  CASE k = 1 -> Sarf [] k = 2 -> Bank [] k = 3 -> Forex [] OTHER -> Mock

\* The asset source k supplies for an id, with the given rate types.
MergeAsset(k, id, types) ==
  Asset(id, <<id, k>>, "currency", MergeSourceName(k), k,
        [t \in types |-> Rate(100 * k, 100 * k + 2, 100 * k + 1, "EGP")],
        <<[timestamp |-> k, value |-> 100 * k]>>)

\* The sets of rate types a source can supply for an id: any set of them
\* (the empty one too) for USD_EGP, the official rate for the other id.
MergeTypesOf(id) ==
  IF id = "USD_EGP" THEN SUBSET MergeRateTypes ELSE {{"official"}}

\* What a source can supply: any set of the ids, each with one of its sets
\* of rate types.
MergeChoices ==
  UNION {{f \in [ids -> SUBSET MergeRateTypes] :
            \A id \in ids : f[id] \in MergeTypesOf(id)} : ids \in SUBSET MergeIds}

MergeAssets(k, choice) ==
  [id \in DOMAIN choice |-> MergeAsset(k, id, choice[id])]

\* The orders in which n distinct sources can be listed.
MergeOrders(n) ==
  {o \in [1..n -> 1..MaxMergeInputs] : \A i, j \in 1..n : i # j => o[i] # o[j]}

InitMerge ==
  /\ sources = << >>
  /\ health = [n \in SourceNames |-> InitialHealth(n)]
  /\ cachedData = Null
  /\ cacheExpiry = 0
  /\ now = 0
  /\ calls = << >>
  /\ probes = [round |-> FALSE, startTime |-> 0,
               due |-> config.healthCheckIntervalMs, pending |-> {},
               raised |-> {}]
  /\ logs = << >>
  /\ \E n \in 0..MaxMergeInputs :
       \E order \in MergeOrders(n) :
         \E choice \in [1..n -> MergeChoices] :
           mergeIn = [i \in 1..n |-> MergeAssets(order[i], choice[i])]
  /\ mergeOut = [done |-> FALSE, assets |-> EmptyMap]
  /\ NoClient

\* Line 47: mergeData is applied to the list.
Merge ==
  /\ ~mergeOut.done
  /\ mergeOut' = [done |-> TRUE, assets |-> mergeData(mergeIn)]
  /\ UNCHANGED <<unitVars, sources, health, cachedData, cacheExpiry, now, calls, probes,
                 logs, mergeIn, clientVars>>

NextMerge == Merge

SpecMerge == InitMerge /\ [][NextMerge]_vars

(***************************************************************************)
(* getServiceHealth on its own: a client reads the service health of an    *)
(* orchestrator over any list of up to MaxRollupSources sources, each      *)
(* reporting any status of the DataSourceHealth contract.                  *)
(***************************************************************************)
\* The lists of n distinct sources.
SourceLists(n) ==
  {l \in [1..n -> SourceNames] : \A i, j \in 1..n : i # j => l[i] # l[j]}

InitRollup ==
  /\ \E n \in 1..MaxRollupSources : \E l \in SourceLists(n) : sources = l
  /\ \E st \in [SourceNames -> HealthStatus] :
       health = [n \in SourceNames |-> [InitialHealth(n) EXCEPT !.status = st[n]]]
  /\ cachedData = Null
  /\ cacheExpiry = 0
  /\ now = 0
  /\ calls = << >>
  /\ probes = [round |-> FALSE, startTime |-> 0,
               due |-> config.healthCheckIntervalMs, pending |-> {},
               raised |-> {}]
  /\ logs = << >>
  /\ mergeIn = << >>
  /\ mergeOut = [done |-> FALSE, assets |-> EmptyMap]
  /\ NoClient

ReadServiceHealth_Touches ==
  /\ ~serviceHealth.read
  /\ serviceHealth' = [read |-> TRUE, status |-> getServiceHealth.status,
                       sources |-> getServiceHealth.sources]
  /\ health' = [n \in DOMAIN health |-> [health[n] EXCEPT !.lastCheck = now]]
  /\ UNCHANGED <<unitVars, sources, cachedData, cacheExpiry, now, calls, probes,
                 logs, mergeIn, mergeOut, assetData, snapshot>>

\* A client calls ExchangeService.getServiceHealth.
ReadServiceHealth ==
  /\ ~serviceHealth.read
  /\ serviceHealth' = [read |-> TRUE, status |-> getServiceHealth.status,
                       sources |-> getServiceHealth.sources]
  /\ UNCHANGED <<unitVars, sources, health, cachedData, cacheExpiry, now, calls, probes,
                 logs, mergeIn, mergeOut, assetData, snapshot>>

NextRollup == ReadServiceHealth

SpecRollup == InitRollup /\ [][NextRollup]_vars

(***************************************************************************)
(* A client of a source's getHealth: it takes a snapshot of a source's     *)
(* health and may write to the object it got, while calls and health       *)
(* checks go on.                                                           *)
(***************************************************************************)
InitSnapshot == InitWith(<<Sarf, Mock>>, {"c1"})

\* A client calls getHealth of a source of the list.
TakeSnapshot(name) ==
  /\ ~snapshot.taken
  /\ \E i \in 1..Len(sources) : sources[i] = name
  /\ snapshot' = [taken |-> TRUE, source |-> name,
                  live |-> getHealthObject(name).live,
                  value |-> getHealthObject(name).value]
  /\ UNCHANGED <<unitVars, sources, health, cachedData, cacheExpiry, now, calls, probes,
                 logs, mergeIn, mergeOut, serviceHealth, assetData>>

\* The client assigns a status to the object it got: the write shows in the
\* source's record exactly when the object is that record.
WriteSnapshot(status) ==
  /\ snapshot.taken
  /\ status # snapshot.value.status
  /\ snapshot' = [snapshot EXCEPT !.value.status = status]
  /\ health' = IF snapshot.live
               THEN [health EXCEPT ![snapshot.source].status = status]
               ELSE health
  /\ UNCHANGED <<unitVars, sources, cachedData, cacheExpiry, now, calls, probes,
                 logs, mergeIn, mergeOut, serviceHealth, assetData>>

NextSnapshot ==
  \/ Next
  \/ \E name \in SourceNames : TakeSnapshot(name)
  \/ \E status \in HealthStatus : WriteSnapshot(status)

SpecSnapshot == InitSnapshot /\ [][NextSnapshot]_vars

(***************************************************************************)
(* A client of getServiceHealth, which reads the health of every source    *)
(* through getHealth, while calls and health checks go on.                 *)
(***************************************************************************)
NextService ==
  \/ Next
  \/ ReadServiceHealth

SpecService == InitSnapshot /\ [][NextService]_vars

(***************************************************************************)
(* ExchangeService.getAssetData, after its await: getStandardizedData has  *)
(* resolved with a dataset, and the ids are reduced over it.               *)
(***************************************************************************)
\* Some of the properties every object inherits from Object.prototype.
ObjectPrototypeKeys == {"toString", "constructor"}

undefined == [kind |-> "undefined"]

\* The function an object inherits under a key of Object.prototype.
Inherited(key) == [kind |-> "function", name |-> key]

\* obj[key] of JavaScript, for an object literal with the given own
\* properties: the own property, else the inherited one, else undefined.
Get(obj, key) ==
  IF key \in DOMAIN obj THEN obj[key]
  ELSE IF key \in ObjectPrototypeKeys THEN Inherited(key)
  ELSE undefined

\* Whether a value is truthy: objects and functions are, undefined is not.
Truthy(v) == v # undefined

\* acc[id] = v on the accumulator.
Put(acc, id, v) == [k \in DOMAIN acc \cup {id} |-> IF k = id THEN v ELSE acc[k]]

RECURSIVE reduce(_, _, _)
\* ids.reduce((acc, id) => { if (data.assets[id]) acc[id] = data.assets[id];
\* return acc; }, acc)
reduce(assets, ids, acc) ==
  IF ids = << >>
  THEN acc
  ELSE reduce(assets, Tail(ids),
              IF Truthy(Get(assets, Head(ids)))
              THEN Put(acc, Head(ids), Get(assets, Head(ids)))
              ELSE acc)

\* The value getAssetData(ids) resolves with when getStandardizedData has
\* resolved with data.
getAssetData(data, ids) == reduce(data.assets, ids, EmptyMap)

\* The ids a client asks for.
RequestIds == {"USD_EGP", "EUR_DZD", "OIL_WTI", "BTC_USD", "toString"}

IdLists == UNION {[1..n -> RequestIds] : n \in 0..MaxIds}

\* The datasets getStandardizedData resolves with: the merges of what some of
\* the sources return, which are never empty.
YieldedAssets ==
  {mergeData(<<a, b, m>>) :
     a \in SourceAssets(Sarf, 0), b \in SourceAssets(Forex, 0),
     m \in SourceAssets(Mock, 0) \cup {EmptyMap}} \ {EmptyMap}

\* getStandardizedData of a call of getAssetData has resolved with a dataset,
\* which is the dataset of the cache.
InitAssets ==
  /\ sources = <<Sarf, Forex, Mock>>
  /\ health = [n \in SourceNames |-> InitialHealth(n)]
  /\ \E assets \in YieldedAssets :
       /\ cachedData = Data(1, assets)
       /\ calls = [c \in {"c1"} |->
                     [IdleCall EXCEPT !.pc = "returned",
                                      !.result = Data(1, assets)]]
  /\ cacheExpiry = config.cacheTimeoutMs
  /\ now = 0
  /\ probes = [round |-> FALSE, startTime |-> 0,
               due |-> config.healthCheckIntervalMs, pending |-> {},
               raised |-> {}]
  /\ logs = << >>
  /\ mergeIn = << >>
  /\ mergeOut = [done |-> FALSE, assets |-> EmptyMap]
  /\ NoClient

\* Lines 155-158 of getAssetData, for the dataset the call resolved with.
GetAssetData(c, ids) ==
  /\ ~assetData.done
  /\ calls[c].pc = "returned"
  /\ assetData' = [done |-> TRUE, ids |-> ids,
                   result |-> getAssetData(calls[c].result, ids)]
  /\ UNCHANGED <<unitVars, sources, health, cachedData, cacheExpiry, now, calls, probes,
                 logs, mergeIn, mergeOut, serviceHealth, snapshot>>

NextAssets == \E c \in DOMAIN calls : \E ids \in IdLists : GetAssetData(c, ids)

SpecAssets == InitAssets /\ [][NextAssets]_vars

(***************************************************************************)
(* ExchangeService.getInstance: the service is constructed by the first    *)
(* call, and its orchestrator and timer run from then on.                  *)
(***************************************************************************)
InitInstance ==
  /\ sources = <<Sarf, Mock>>
  /\ health = [n \in SourceNames |-> InitialHealth(n)]
  /\ cachedData = Null
  /\ cacheExpiry = 0
  /\ now = 0
  /\ calls = [c \in {"c1"} |-> IdleCall]
  /\ probes = [round |-> FALSE, startTime |-> 0,
               due |-> config.healthCheckIntervalMs, pending |-> {},
               raised |-> {}]
  /\ logs = << >>
  /\ mergeIn = << >>
  /\ mergeOut = [done |-> FALSE, assets |-> EmptyMap]
  /\ serviceHealth = [read |-> FALSE, status |-> "", sources |-> << >>]
  /\ assetData = [done |-> FALSE, ids |-> << >>, result |-> EmptyMap]
  /\ snapshot = [taken |-> FALSE]
  /\ facade = NoInstance
  /\ raw = << >>
  /\ adapted = << >>
  /\ logsRead = [done |-> FALSE]
  /\ heap = NoHeap

HasInstance_Never == FALSE

\* Line 146: the test on ExchangeService.instance.
HasInstance == facade.instance # 0

\* new ExchangeService(), lines 127-143: a new instance with a new
\* DataOrchestrator and a new setInterval timer.
Constructed ==
  [facade EXCEPT !.instance = facade.orchestrators + 1,
                 !.orchestrators = @ + 1,
                 !.timers = @ + 1]

\* getInstance, lines 145-149; the constructor logs that the service is
\* initialized.
GetInstance ==
  /\ Len(facade.returned) < MaxGetInstance
  /\ LET built == IF HasInstance THEN facade ELSE Constructed IN
     facade' = [built EXCEPT !.returned = Append(@, built.instance)]
  /\ logs' = IF HasInstance THEN logs
             ELSE log(logs, now, "info", <<"ExchangeService", "">>,
                      <<"Service initialized in mode", config.mode>>)
  /\ UNCHANGED <<sources, health, cachedData, cacheExpiry, now, calls, probes,
                 mergeIn, mergeOut, serviceHealth, assetData, snapshot,
                 raw, adapted, logsRead, heap>>

\* The orchestrator and the timer exist once the service is constructed.
NextInstance ==
  \/ GetInstance
  \/ facade.instance # 0 /\ Next

SpecInstance == InitInstance /\ [][NextInstance]_vars

(***************************************************************************)
(* The adapters, run by fetchStandardizedData on the payload executeFetch  *)
(* returned. A value of a payload is a number (in hundredths), undefined,  *)
(* null or NaN.                                                            *)
(***************************************************************************)
null == [kind |-> "null"]

NaN == [kind |-> "NaN"]

Num(n) == [kind |-> "number", value |-> n]

\* a + b of JavaScript on numbers and undefined.
Plus(a, b) ==
  IF a.kind = "number" /\ b.kind = "number" THEN Num(a.value + b.value) ELSE NaN

\* a / 2
Half(a) == IF a.kind = "number" THEN Num(a.value \div 2) ELSE NaN

\* a * (permille / 1000), to the nearest hundredth.
Times(a, permille) ==
  IF a.kind = "number" THEN Num((a.value * permille + 500) \div 1000) ELSE NaN

\* An object with the given properties, an array with the given items.
Obj(entries) == [kind |-> "object", entries |-> entries]

Arr(items) == [kind |-> "array", items |-> items]

\* The result of adapt: it threw the message, or returned the assets.
Threw(message) == [threw |-> TRUE, message |-> message, assets |-> EmptyMap]

Returned(assets) == [threw |-> FALSE, message |-> "", assets |-> assets]

\* code.toUpperCase()
toUpperCase(code) ==
  CASE code = "usd" -> "USD" [] code = "eur" -> "EUR" [] OTHER -> code

SarfIdentifier_Fixed(code) == "USD_EGP"

\* Line 31 of the Sarf adapter.
SarfIdentifier(code) == toUpperCase(code) \o "_EGP"

\* Lines 33-39: the chart of a raw rate as historical data.
SarfHistory(chart) ==
  IF chart = undefined THEN << >>
  ELSE [i \in 1..Len(chart.times) |->
          [timestamp |-> chart.times[i] * 1000, value |-> chart.buyingPrices[i]]]

\* Lines 41-57: the asset of one entry of rawData.rates.
SarfAsset(code, rawRate, t) ==
  Asset(SarfIdentifier(code), toUpperCase(code) \o " to EGP", "currency", Sarf, t,
        Single("parallel_market",
               Rate(rawRate.buying, rawRate.selling,
                    Half(Plus(rawRate.buying, rawRate.selling)), "EGP")),
        SarfHistory(rawRate.chart))

\* SarfCurrencyAdapter.adapt at time t: the loop of lines 29-59 has no test,
\* every entry becomes an asset. Reading rates of a null payload, or chart of
\* a null entry, is a TypeError; a for-in over undefined rates runs no
\* iteration.
SarfAdapt(rawData, t) ==
  IF rawData = null
  THEN Threw("Cannot read properties of null (reading 'rates')")
  ELSE IF rawData.rates = undefined
  THEN Returned(EmptyMap)
  ELSE LET rates == rawData.rates.entries IN
       IF \E code \in DOMAIN rates : rates[code] = null
       THEN Threw("Cannot read properties of null (reading 'chart')")
       ELSE LET codes == DOMAIN rates
            IN Returned([id \in {SarfIdentifier(c) : c \in codes} |->
                           LET c == CHOOSE c \in codes : SarfIdentifier(c) = id
                           IN SarfAsset(c, rates[c], t)])

\* The codes of rawData.rates in the payloads of the model.
SarfCodes == {"usd", "eur"}

SarfChart == [times |-> <<1>>, buyingPrices |-> <<Num(5040)>>]

\* The entries of rawData.rates: a raw rate with or without its buying and
\* selling numbers and its chart, or null.
SarfEntries ==
  {null} \cup
  [buying : {undefined, Num(5050)}, selling : {undefined, Num(5070)},
   chart : {undefined, SarfChart}]

SarfPayloads ==
  {null, [rates |-> undefined]} \cup
  {[rates |-> Obj(r)] : r \in UNION {[codes -> SarfEntries] : codes \in SUBSET SarfCodes}}

\* The keys of currencyNameMap the model takes, in the order of the map.
ForexCodes == <<"EUR", "USD">>

ForexName(code) == IF code = "EUR" THEN "Euro" ELSE "Dollar US"

toLowerCase(code) ==
  CASE code = "EUR" -> "eur" [] code = "USD" -> "usd" [] OTHER -> code

\* The texts of the elements of the page: a price, a text with no digit, and
\* dots only.
ForexTexts == {"245.50", "247.50", "N/A", "..."}

\* Whether the text of an element starts with a run of [\d.], the group of
\* the regular expression of extractPrice.
MatchesPrice(text) == text \in {"245.50", "247.50", "..."}

\* parseFloat of the matched group.
parseFloat(text) ==
  CASE text = "245.50" -> Num(24550)
    [] text = "247.50" -> Num(24750)
    [] OTHER -> NaN

\* ForexAlgerieAdapter.extractPrice: the html is the text of each element
\* that has an id.
extractPrice(html, id) ==
  IF id \in DOMAIN html /\ MatchesPrice(html[id]) THEN parseFloat(html[id]) ELSE null

\* Line 56 of the Forex adapter.
ForexEmits(buying, selling) == buying # null /\ selling # null

ForexAsset(code, buying, selling, t) ==
  Asset(code \o "_DZD", ForexName(code) \o " to DZD", "currency", Forex, t,
        Single("parallel_market",
               Rate(buying, selling, Half(Plus(buying, selling)), "DZD")),
        << >>)

\* ForexAlgerieAdapter.adapt at time t.
ForexAdapt(html, t) ==
  LET buy(code) == extractPrice(html, toLowerCase(code) \o "Buy")
      sell(code) == extractPrice(html, toLowerCase(code) \o "Sell")
      codes == {ForexCodes[i] : i \in 1..Len(ForexCodes)}
      kept == {c \in codes : ForexEmits(buy(c), sell(c))}
  IN Returned([id \in {c \o "_DZD" : c \in kept} |->
                 LET c == CHOOSE c \in kept : c \o "_DZD" = id
                 IN ForexAsset(c, buy(c), sell(c), t)])

ForexElementIds == {"eurBuy", "eurSell", "usdBuy", "usdSell"}

ForexPayloads ==
  UNION {[ids -> ForexTexts] : ids \in SUBSET ForexElementIds}

\* 86400000 ms, in the time unit of the model.
DayMs == 1

\* Lines 135-154 of the mock adapter: the asset of one commodity. rand is
\* Math.random() at its low or its high end; the historical data is one day
\* of the thirty.
MockAsset(commodity, timestamp, rand) ==
  Asset(commodity.id, commodity.name, "commodity", Mock, timestamp,
        Single("market",
               Rate(Times(commodity.price, 998), Times(commodity.price, 1002),
                    commodity.price, commodity.unit)),
        <<[timestamp |-> timestamp - DayMs,
           value |-> Times(commodity.price, IF rand = 0 THEN 950 ELSE 1050)]>>)

RECURSIVE MockAdaptFrom(_, _, _, _)
\* The loop of lines 133-156 over the commodities left.
MockAdaptFrom(assets, commodities, timestamp, rand) ==
  IF commodities = << >>
  THEN Returned(assets)
  ELSE IF Head(commodities) = null
  THEN Threw("Cannot read properties of null (reading 'id')")
  ELSE MockAdaptFrom(
         Put(assets, Head(commodities).id, MockAsset(Head(commodities), timestamp, rand)),
         Tail(commodities), timestamp, rand)

\* MockCommoditiesAdapter.adapt; the timestamp of the payload is the time.
MockAdapt(rawData, t, rand) ==
  IF rawData.commodities = undefined
  THEN Threw("rawData.commodities is not iterable")
  ELSE MockAdaptFrom(EmptyMap, rawData.commodities.items, t, rand)

MockEntries ==
  {null} \cup
  {[id |-> "OIL_WTI", name |-> "WTI Crude Oil", price |-> p, unit |-> "USD/bbl"] :
     p \in {undefined, Num(7850)}} \cup
  {[id |-> "GOLD_XAU", name |-> "Gold Spot", price |-> p, unit |-> "USD/oz"] :
     p \in {undefined, Num(235075)}}

MockPayloads ==
  {[commodities |-> undefined]} \cup
  {[commodities |-> Arr(cs)] : cs \in UNION {[1..n -> MockEntries] : n \in 0..2}}

\* adaptToStandardizedFormat of the source on a payload.
adaptToStandardizedFormat(name, rawData, t, rand) ==
  CASE name = Sarf -> SarfAdapt(rawData, t)
    [] name = Forex -> ForexAdapt(rawData, t)
    [] OTHER -> MockAdapt(rawData, t, rand)

RECURSIVE extractWarnings(_, _, _)
\* The warn entries extractPrice logs, for the element ids in the order the
\* adapter asks for them.
extractWarnings(buf, html, ids) ==
  IF ids = << >> THEN buf
  ELSE extractWarnings(
         IF extractPrice(html, Head(ids)) = null
         THEN log(buf, now, "warn", <<"adapter", Forex>>,
                  <<"Could not extract price for ID", Head(ids)>>)
         ELSE buf,
         html, Tail(ids))

\* What adapt and, when it throws, fetchStandardizedData log.
adaptLogs(buf, name, rawData, result) ==
  LET begun == IF name \in {Sarf, Forex}
               THEN log(buf, now, "info", <<"adapter", name>>,
                        <<"Adapting data from", name>>)
               ELSE buf
      warned == IF name = Forex
                THEN extractWarnings(begun, rawData,
                                     <<"eurBuy", "eurSell", "usdBuy", "usdSell">>)
                ELSE begun
  IN IF result.threw
     THEN log(warned, now, "error", <<"DataSource", name>>,
              <<"Failed to execute data fetch", result.message>>)
     ELSE IF name \in {Sarf, Forex}
     THEN log(warned, now, "info", <<"adapter", name>>,
              <<"Adapted assets", ToString(Cardinality(DOMAIN result.assets))>>)
     ELSE warned

\* executeFetch of a source has returned a payload.
InitAdapt ==
  /\ sources = <<Sarf, Forex, Mock>>
  /\ health = [n \in SourceNames |-> InitialHealth(n)]
  /\ cachedData = Null
  /\ cacheExpiry = 0
  /\ now = 0
  /\ calls = << >>
  /\ probes = [round |-> FALSE, startTime |-> 0,
               due |-> config.healthCheckIntervalMs, pending |-> {},
               raised |-> {}]
  /\ logs = << >>
  /\ mergeIn = << >>
  /\ mergeOut = [done |-> FALSE, assets |-> EmptyMap]
  /\ serviceHealth = [read |-> FALSE, status |-> "", sources |-> << >>]
  /\ assetData = [done |-> FALSE, ids |-> << >>, result |-> EmptyMap]
  /\ snapshot = [taken |-> FALSE]
  /\ facade = OneInstance
  /\ \/ \E p \in SarfPayloads : raw = [source |-> Sarf, data |-> p]
     \/ \E p \in ForexPayloads : raw = [source |-> Forex, data |-> p]
     \/ \E p \in MockPayloads : raw = [source |-> Mock, data |-> p]
  /\ adapted = << >>
  /\ logsRead = [done |-> FALSE]
  /\ heap = NoHeap

\* Lines 28-36 of fetchStandardizedData, on the payload executeFetch
\* returned: the adapter runs, and the health is updated for its outcome.
Adapt(rand) ==
  LET name == raw.source
      result == adaptToStandardizedFormat(name, raw.data, now, rand)
  IN /\ Len(adapted) < MaxAdaptRuns
     /\ adapted' = Append(adapted, result)
     /\ health' = [health EXCEPT
                     ![name] = IF result.threw
                               THEN updateHealth(name, FALSE, 0, result.message)
                               ELSE updateHealth(name, TRUE, 0, "")]
     /\ logs' = adaptLogs(logs, name, raw.data, result)
     /\ UNCHANGED <<sources, cachedData, cacheExpiry, now, calls, probes,
                    mergeIn, mergeOut, serviceHealth, assetData, snapshot,
                    facade, raw, logsRead, heap>>

\* Time passes between two runs.
AdaptTick ==
  /\ now < MaxTime
  /\ now' = now + 1
  /\ UNCHANGED <<sources, health, cachedData, cacheExpiry, calls, probes, logs,
                 mergeIn, mergeOut, serviceHealth, assetData, snapshot,
                 facade, raw, adapted, logsRead, heap>>

NextAdapt ==
  \/ \E rand \in {0, 1} : Adapt(rand)
  \/ AdaptTick

SpecAdapt == InitAdapt /\ [][NextAdapt]_vars

(***************************************************************************)
(* The claims.                                                             *)
(***************************************************************************)
\* The last entry of the log buffer is the given one.
LastLogIs(buf, level, component, text) ==
  /\ buf # << >>
  /\ buf[Len(buf)].level = level
  /\ buf[Len(buf)].component = component
  /\ buf[Len(buf)].message[1] = text

\* This step is a getStandardizedData call of c.
Calls(c) ==
  calls[c].pc \in {"idle", "returned", "threw"} /\ calls'[c] # calls[c]

\* This step ends a fetch cycle of c: the call passes its last source.
EndsCycle(c) ==
  /\ calls'[c] # calls[c]
  /\ calls'[c].pc \in {"returned", "threw"}
  /\ Len(calls'[c].attempts) = Len(sources)
  /\ ~(calls[c].pc # "fetching" /\ cachedData # Null /\ now < cacheExpiry)

\* No fetchStandardizedData is started in this step.
NoFetchStarted ==
  \A c \in DOMAIN calls : calls'[c].pc = "fetching" => calls[c].pc = "fetching"

\* C1 (as amended): a call made while a dataset is cached and now <
\* cacheExpiry returns the very object that is cached at the time of the call
\* and starts no fetch on any source, and leaves the cache and every health
\* record as they are; and a call a caller makes while now < t +
\* cacheTimeoutMs, its own cycle having stored a dataset D at time t, starts
\* no fetch and returns the cached object, which is D unless another cycle
\* has stored its dataset in the cache since.
C1_FreshCallReturnsCached ==
  [][\A c \in DOMAIN calls :
       /\ (Calls(c) /\ cachedData # Null /\ now < cacheExpiry)
            => /\ calls'[c].pc = "returned"
               /\ calls'[c].result = cachedData
               /\ NoFetchStarted
               /\ UNCHANGED <<cachedData, cacheExpiry, health>>
       /\ (/\ Calls(c)
           /\ calls[c].storedAt >= 0
           /\ now < calls[c].storedAt + config.cacheTimeoutMs)
            => /\ calls'[c].pc = "returned"
               /\ calls'[c].result = cachedData
               /\ cachedData.oid = calls[c].result.oid
                    => calls'[c].result = calls[c].result
               /\ NoFetchStarted]_vars

\* C1, witness: a caller that stored a dataset has called again within the
\* window and holds the same object, served from the cache.
C1_Witness ==
  \E c \in DOMAIN calls :
    /\ calls[c].pc = "returned"
    /\ calls[c].attempts = << >>
    /\ calls[c].result # Null
    /\ calls[c].result = cachedData
    /\ now < cacheExpiry

\* C1 (as claimed): a caller whose cycle stored a dataset D at time t gets D
\* again, and no fetch is started, from every call it makes while
\* now < t + cacheTimeoutMs.
C1_Original ==
  [][\A c \in DOMAIN calls :
       (/\ Calls(c)
        /\ calls[c].storedAt >= 0
        /\ now < calls[c].storedAt + config.cacheTimeoutMs)
         => /\ calls'[c].pc = "returned"
            /\ calls'[c].result = calls[c].result
            /\ NoFetchStarted]_vars

StaleMessage == "All sources failed to provide data. Returning stale cache."

UnavailableError == "All data sources are unavailable and no cache exists."

\* Every source of the cycle that ends in this step failed: its fetch threw,
\* or it was skipped because it reports failed.
AllFailed(c) ==
  \A i \in 1..Len(calls'[c].attempts) : calls'[c].attempts[i].outcome # "fetched"

\* C2: when a cycle ends in which every source failed and a dataset is cached
\* (the cycle began because it had expired), the call returns the cached
\* object, the cache (object, content and expiry) is unchanged, and the entry
\* logged last is the orchestrator's error entry.
C2_StaleFallback ==
  [][\A c \in DOMAIN calls :
       (EndsCycle(c) /\ AllFailed(c) /\ cachedData # Null)
         => /\ calls'[c].pc = "returned"
            /\ calls'[c].result = cachedData
            /\ UNCHANGED <<cachedData, cacheExpiry>>
            /\ LastLogIs(logs', "error", Orchestrator, StaleMessage)]_vars

\* C2, witness: a call has returned the expired cached dataset after all
\* three sources threw, and the error entry is in the log.
C2_Witness ==
  \E c \in DOMAIN calls :
    /\ calls[c].pc = "returned"
    /\ Len(calls[c].attempts) = 3
    /\ \A i \in 1..3 : calls[c].attempts[i].outcome = "threw"
    /\ calls[c].result = cachedData
    /\ cachedData # Null
    /\ now >= cacheExpiry
    /\ LastLogIs(logs, "error", Orchestrator, StaleMessage)

\* C3: when a cycle ends in which every source failed and no dataset is
\* cached, the call throws the 'unavailable' error and returns no dataset,
\* and the cache stays empty.
C3_HardFailure ==
  [][\A c \in DOMAIN calls :
       (EndsCycle(c) /\ AllFailed(c) /\ cachedData = Null)
         => /\ calls'[c].pc = "threw"
            /\ calls'[c].error = UnavailableError
            /\ calls'[c].result = Null
            /\ cachedData' = Null]_vars

\* C3, witness: a call has thrown after all three sources threw, with
\* nothing cached.
C3_Witness ==
  \E c \in DOMAIN calls :
    /\ calls[c].pc = "threw"
    /\ calls[c].error = UnavailableError
    /\ Len(calls[c].attempts) = 3
    /\ \A i \in 1..3 : calls[c].attempts[i].outcome = "threw"
    /\ cachedData = Null

\* The assets of the sources of a cycle that were fetched, in source order.
RECURSIVE FetchedAssets(_)
FetchedAssets(attempts) ==
  IF attempts = << >> THEN << >>
  ELSE IF Head(attempts).outcome = "fetched"
       THEN <<Head(attempts).assets>> \o FetchedAssets(Tail(attempts))
       ELSE FetchedAssets(Tail(attempts))

\* The cycle of c ends in this step, some source of it threw, and a source
\* that was fetched supplies an asset.
EndsPartial(c) ==
  /\ EndsCycle(c)
  /\ \E i \in 1..Len(calls'[c].attempts) : calls'[c].attempts[i].outcome = "threw"
  /\ \E i \in 1..Len(calls'[c].attempts) :
       /\ calls'[c].attempts[i].outcome = "fetched"
       /\ DOMAIN calls'[c].attempts[i].assets # {}

\* The call returns the merge of the datasets of exactly the sources that
\* were fetched: its asset ids are theirs, and no other.
ReturnsMergeOfFetched(c) ==
  LET att == calls'[c].attempts IN
  /\ calls'[c].pc = "returned"
  /\ calls'[c].result.assets = mergeData(FetchedAssets(att))
  /\ DOMAIN calls'[c].result.assets =
       UNION {DOMAIN att[i].assets : i \in {j \in 1..Len(att) : att[j].outcome = "fetched"}}
  /\ \A id \in DOMAIN calls'[c].result.assets :
       \E i \in 1..Len(att) :
         /\ att[i].outcome = "fetched"
         /\ id \in DOMAIN att[i].assets
         /\ calls'[c].result.assets[id].source = att[i].source

C5_Original ==
  \A c \in DOMAIN calls :
    calls[c].pc = "fetching"
      => \A j \in (calls[c].idx + 1)..Len(sources) :
           health[sources[j]].status = "failed"

\* Source dataset i of the merge supplies rate type t for the asset id.
Supplies(i, id, t) ==
  id \in DOMAIN mergeIn[i] /\ t \in DOMAIN mergeIn[i][id].rates

\* The rates of two mappings with no key in common, together.
RatesUnion(a, b) ==
  [t \in (DOMAIN a) \cup (DOMAIN b) |-> IF t \in DOMAIN a THEN a[t] ELSE b[t]]

\* C6: for two source datasets with the same asset id and no rate type in
\* common for it, the rates of the merged asset are the rates of both
\* together, and they are the same when the two datasets are merged in the
\* other order.
C6_DisjointRatesCommute ==
  (mergeOut.done /\ Len(mergeIn) = 2)
    => \A id \in (DOMAIN mergeIn[1]) \cap (DOMAIN mergeIn[2]) :
         LET a == mergeIn[1][id].rates
             b == mergeIn[2][id].rates
         IN (DOMAIN a) \cap (DOMAIN b) = {}
              => /\ mergeOut.assets[id].rates = RatesUnion(a, b)
                 /\ mergeData(<<mergeIn[2], mergeIn[1]>>)[id].rates
                      = RatesUnion(a, b)

\* C6, witness: two datasets with the official and the parallel-market rate
\* of the same asset have been merged, and the asset has both.
C6_Witness ==
  /\ mergeOut.done
  /\ Len(mergeIn) = 2
  /\ "USD_EGP" \in (DOMAIN mergeIn[1]) \cap (DOMAIN mergeIn[2])
  /\ DOMAIN mergeIn[1]["USD_EGP"].rates = {"parallel_market"}
  /\ DOMAIN mergeIn[2]["USD_EGP"].rates = {"official"}
  /\ DOMAIN mergeOut.assets["USD_EGP"].rates = {"official", "parallel_market"}

\* C7: a rate type of a merged asset holds the value of the last dataset, in
\* the order of the list, that supplies it for that asset; of two datasets
\* that both supply it, merged in the other order, it holds the value of
\* the other one.
C7_LaterSourceWins ==
  mergeOut.done
    => /\ \A i \in 1..Len(mergeIn) : \A id \in DOMAIN mergeIn[i] :
            \A t \in DOMAIN mergeIn[i][id].rates :
              (\A j \in (i + 1)..Len(mergeIn) : ~Supplies(j, id, t))
                => /\ id \in DOMAIN mergeOut.assets
                   /\ t \in DOMAIN mergeOut.assets[id].rates
                   /\ mergeOut.assets[id].rates[t] = mergeIn[i][id].rates[t]
       /\ Len(mergeIn) = 2
            => \A id \in (DOMAIN mergeIn[1]) \cap (DOMAIN mergeIn[2]) :
                 \A t \in (DOMAIN mergeIn[1][id].rates)
                            \cap (DOMAIN mergeIn[2][id].rates) :
                   /\ mergeOut.assets[id].rates[t] = mergeIn[2][id].rates[t]
                   /\ mergeData(<<mergeIn[2], mergeIn[1]>>)[id].rates[t]
                        = mergeIn[1][id].rates[t]

\* C7, witness: two datasets that supply different official rates of the
\* same asset have been merged, and the asset holds the second one's.
C7_Witness ==
  /\ mergeOut.done
  /\ Len(mergeIn) = 2
  /\ Supplies(1, "USD_EGP", "official")
  /\ Supplies(2, "USD_EGP", "official")
  /\ mergeIn[1]["USD_EGP"].rates["official"]
       # mergeIn[2]["USD_EGP"].rates["official"]
  /\ mergeOut.assets["USD_EGP"].rates["official"]
       = mergeIn[2]["USD_EGP"].rates["official"]

\* C8: the name, source, timestamp and historicalData of a merged asset are
\* those of the first dataset, in the order of the list, that has the asset
\* id, whatever the later datasets supply for it.
C8_FirstSourceOwnsMetadata ==
  mergeOut.done
    => \A i \in 1..Len(mergeIn) : \A id \in DOMAIN mergeIn[i] :
         (\A j \in 1..(i - 1) : id \notin DOMAIN mergeIn[j])
           => /\ id \in DOMAIN mergeOut.assets
              /\ mergeOut.assets[id].name = mergeIn[i][id].name
              /\ mergeOut.assets[id].source = mergeIn[i][id].source
              /\ mergeOut.assets[id].timestamp = mergeIn[i][id].timestamp
              /\ mergeOut.assets[id].historicalData
                   = mergeIn[i][id].historicalData

\* C8, witness: a second dataset has added a rate type to an asset of the
\* first; the asset has the rate type and the first dataset's name, which is
\* not the second's.
C8_Witness ==
  /\ mergeOut.done
  /\ Len(mergeIn) >= 2
  /\ Supplies(1, "USD_EGP", "parallel_market")
  /\ ~Supplies(1, "USD_EGP", "official")
  /\ Supplies(2, "USD_EGP", "official")
  /\ "official" \in DOMAIN mergeOut.assets["USD_EGP"].rates
  /\ mergeOut.assets["USD_EGP"].name = mergeIn[1]["USD_EGP"].name
  /\ mergeOut.assets["USD_EGP"].name # mergeIn[2]["USD_EGP"].name
  /\ mergeOut.assets["USD_EGP"].historicalData
       # mergeIn[2]["USD_EGP"].historicalData

\* C9: the asset ids of the merged dataset are those of the source datasets
\* and no other, each asset is filed under its own identifier, and the rate
\* types of a merged asset are those the datasets supply for its id, and no
\* other.
C9_UnionOfIdsAndRateTypes ==
  mergeOut.done
    => /\ DOMAIN mergeOut.assets
            = UNION {DOMAIN mergeIn[i] : i \in 1..Len(mergeIn)}
       /\ \A id \in DOMAIN mergeOut.assets :
            /\ mergeOut.assets[id].identifier = id
            /\ DOMAIN mergeOut.assets[id].rates
                 = UNION {DOMAIN mergeIn[i][id].rates :
                            i \in {j \in 1..Len(mergeIn) : id \in DOMAIN mergeIn[j]}}

\* C9, witness: three datasets have been merged, an asset id that only the
\* third has is in the result, and another asset has the rate types of the
\* first and the second.
C9_Witness ==
  /\ mergeOut.done
  /\ Len(mergeIn) = 3
  /\ DOMAIN mergeIn[1] = {"USD_EGP"}
  /\ DOMAIN mergeIn[2] = {"USD_EGP"}
  /\ DOMAIN mergeIn[3] = {"EUR_EGP"}
  /\ DOMAIN mergeIn[1]["USD_EGP"].rates = {"parallel_market"}
  /\ DOMAIN mergeIn[2]["USD_EGP"].rates = {"official"}
  /\ DOMAIN mergeOut.assets = {"USD_EGP", "EUR_EGP"}
  /\ DOMAIN mergeOut.assets["USD_EGP"].rates = {"official", "parallel_market"}

\* C10: when the loop of a cycle advances, every source it passes without a
\* fetch reports failed at that moment and is recorded as skipped, and the
\* source whose fetch it starts does not report failed (it may report
\* degraded).
C10_SkipsOnlyFailed ==
  [][\A c \in DOMAIN calls :
       (/\ calls'[c] # calls[c]
        /\ ~(calls[c].pc # "fetching" /\ cachedData # Null /\ now < cacheExpiry))
         => LET from == (IF calls[c].pc = "fetching" THEN calls[c].idx ELSE 0) + 1
                to == IF calls'[c].pc = "fetching" THEN calls'[c].idx
                      ELSE Len(sources) + 1
            IN /\ \A j \in from..(to - 1) :
                    /\ health[sources[j]].status = "failed"
                    /\ calls'[c].attempts[j].outcome = "skipped"
               /\ to <= Len(sources) => health[sources[to]].status # "failed"]_vars

\* C10, witness: a cycle has skipped a source that reports failed and is
\* fetching from a source that reports degraded.
C10_Witness ==
  \E c \in DOMAIN calls :
    /\ calls[c].pc = "fetching"
    /\ health[sources[calls[c].idx]].status = "degraded"
    /\ \E i \in 1..Len(calls[c].attempts) :
         /\ calls[c].attempts[i].outcome = "skipped"
         /\ health[calls[c].attempts[i].source].status = "failed"

\* The fetch that c awaits settles in this step with the given outcome.
Settles(c, outcome) ==
  /\ calls[c].pc = "fetching"
  /\ Len(calls'[c].attempts) >= calls[c].idx
  /\ calls'[c].attempts[calls[c].idx].outcome = outcome

\* C11: when the fetchStandardizedData a call awaits fails, the health record
\* of the source becomes degraded, with the failure message, the time and the
\* latency of the attempt; the call is rejected with an error that carries the
\* name of the source and the message; and no dataset of the source is
\* handed over: none is added to the datasets fetched so far.
C11_FailedFetchDegradesAndRaises ==
  [][\A c \in DOMAIN calls :
       Settles(c, "threw")
         => LET name == sources[calls[c].idx]
                entry == calls'[c].attempts[calls[c].idx]
            IN /\ health'[name].status = "degraded"
               /\ health'[name].message \in FetchErrors(name)
               /\ health'[name].lastCheck = now
               /\ health'[name].latency = now - calls[c].startTime
               /\ entry.error = <<name, health'[name].message>>
               /\ entry.assets = EmptyMap
               /\ calls'[c].pc = "fetching"
                    => calls'[c].successfulFetches = calls[c].successfulFetches]_vars

\* C11, witness: a fetch of the first source has failed while the cycle goes
\* on: the source is degraded with the message of the error, and the error
\* the call got is tagged with its name.
C11_Witness ==
  \E c \in DOMAIN calls :
    /\ calls[c].pc = "fetching"
    /\ calls[c].idx = 2
    /\ calls[c].attempts[1].outcome = "threw"
    /\ calls[c].attempts[1].error[1] = sources[1]
    /\ calls[c].attempts[1].error[2] = health[sources[1]].message
    /\ health[sources[1]].status = "degraded"
    /\ calls[c].successfulFetches = << >>

\* C12: when the fetchStandardizedData a call awaits succeeds, the health
\* record of the source becomes healthy (message OK, the time and latency of
\* the attempt), whatever it was, and the call gets the dataset the adapter
\* built: it is added to the datasets fetched so far.
C12_SuccessfulFetchHeals ==
  [][\A c \in DOMAIN calls :
       Settles(c, "fetched")
         => LET name == sources[calls[c].idx]
                entry == calls'[c].attempts[calls[c].idx]
            IN /\ health'[name].status = "healthy"
               /\ health'[name].message = "OK"
               /\ health'[name].lastCheck = now
               /\ health'[name].latency = now - calls[c].startTime
               /\ entry.assets \in SourceAssets(name, now)
               /\ entry.error = NoError
               /\ calls'[c].pc = "fetching"
                    => calls'[c].successfulFetches
                         = Append(calls[c].successfulFetches, entry.assets)]_vars

\* C12, witness: a source that reported degraded has been fetched with
\* success and now reports healthy, and its dataset is among those fetched.
C12_Witness ==
  \E c \in DOMAIN calls :
    /\ calls[c].pc = "fetching"
    /\ calls[c].was = "degraded"
    /\ calls[c].attempts[calls[c].idx - 1].outcome = "fetched"
    /\ health[sources[calls[c].idx - 1]].status = "healthy"
    /\ health[sources[calls[c].idx - 1]].lastCheck = calls[c].startTime
    /\ calls[c].successfulFetches # << >>

\* C14: a source that extends BaseDataSource reports healthy or degraded,
\* never failed, whatever fetches and health checks have failed before.
C14_NeverFailed ==
  \A n \in BaseSources : health[n].status \in {"healthy", "degraded"}

\* C14, witness: the fetch of a source that already reported degraded has
\* failed again, and the source still reports degraded.
C14_Witness ==
  \E c \in DOMAIN calls :
    /\ calls[c].pc = "fetching"
    /\ calls[c].was = "degraded"
    /\ calls[c].attempts[calls[c].idx - 1].outcome = "threw"
    /\ sources[calls[c].idx - 1] \in BaseSources
    /\ health[sources[calls[c].idx - 1]].status = "degraded"
    /\ health[sources[calls[c].idx - 1]].lastCheck = calls[c].startTime

\* The health check of source n settles in this step.
ProbeSettles(n) == n \in probes.pending /\ n \notin probes'.pending

\* The messages checkHealth records for a probe that succeeded.
ProbeOkMessages == {"OK", "Site is reachable."}

\* C13: checkHealth of a source of the repository never rejects. When its
\* probe settles, the health record of the source (the one its fetches
\* update) is replaced: healthy with the message of success when the probe
\* succeeded, degraded with the message of the error when it failed or timed
\* out, with the time and the latency of the probe. checkHealth of the mock
\* source sets healthy at once.
C13_CheckHealthNeverRaises ==
  [][/\ probes'.raised = {}
     /\ \A n \in BaseSources :
          ProbeSettles(n)
            => /\ health'[n].lastCheck = now
               /\ health'[n].latency = now - probes.startTime
               /\ \/ /\ health'[n].status = "healthy"
                     /\ health'[n].message \in ProbeOkMessages
                  \/ /\ health'[n].status = "degraded"
                     /\ health'[n].message \in ProbeErrors(n)
     /\ (probes'.due # probes.due /\ \E i \in 1..Len(sources) : sources[i] = Mock)
          => /\ health'[Mock].status = "healthy"
             /\ health'[Mock].lastCheck = now
             /\ Mock \notin probes'.pending]_vars

\* C13, witness: after a round of health checks on the three sources, one
\* probe has failed and one has succeeded: the first source is degraded with
\* the probe's error, the second healthy, the mock source healthy, and no
\* checkHealth has rejected.
C13_Witness ==
  /\ ~probes.round
  /\ probes.due > config.healthCheckIntervalMs
  /\ probes.raised = {}
  /\ health[Sarf].status = "degraded"
  /\ health[Sarf].message \in ProbeErrors(Sarf)
  /\ health[Sarf].lastCheck >= probes.startTime
  /\ health[Forex].status = "healthy"
  /\ health[Forex].message = "Site is reachable."
  /\ health[Mock].message = "Mock source is always healthy."
  /\ \A c \in DOMAIN calls : calls[c].pc = "idle"

\* The sources of the list.
Listed == {sources[i] : i \in 1..Len(sources)}

\* C15: the status a client gets from getServiceHealth is failed when every
\* source of the list reports failed, otherwise degraded when some source
\* does not report healthy, otherwise healthy; and the sources it gets are
\* the health records of the sources, in the order of the list.
C15_ServiceHealthRollup ==
  serviceHealth.read
    => /\ (\A n \in Listed : health[n].status = "failed")
            => serviceHealth.status = "failed"
       /\ (/\ \E n \in Listed : health[n].status # "failed"
           /\ \E n \in Listed : health[n].status # "healthy")
            => serviceHealth.status = "degraded"
       /\ (\A n \in Listed : health[n].status = "healthy")
            => serviceHealth.status = "healthy"
       /\ Len(serviceHealth.sources) = Len(sources)
       /\ \A i \in 1..Len(sources) :
            serviceHealth.sources[i] = health[sources[i]]

\* C15, witness: of three sources one reports failed, one healthy and one
\* degraded, and the client has read degraded, with the three records in the
\* order of the list.
C15_Witness ==
  /\ serviceHealth.read
  /\ Len(sources) = 3
  /\ health[sources[1]].status = "failed"
  /\ health[sources[2]].status = "healthy"
  /\ health[sources[3]].status = "degraded"
  /\ serviceHealth.status = "degraded"
  /\ serviceHealth.sources[1].source = sources[1]
  /\ serviceHealth.sources[3].status = "degraded"

\* The health records one call of updateHealth of a source can assign at the
\* present time: the four fields of one success, or of one failure.
OneUpdate(n) ==
  {updateHealth(n, TRUE, l, m) :
     l \in 0..MaxTime \cup {20},
     m \in {"", "Site is reachable.", "Mock source is always healthy."}}
  \cup
  {updateHealth(n, FALSE, l, m) :
     l \in 0..MaxTime, m \in FetchErrors(n) \cup ProbeErrors(n)}

\* C16: getHealth returns a copy of the source's health record. A write to
\* the object a client got from getHealth leaves the health of every source
\* as it is; an update of a source's health leaves the object the client
\* got earlier as it is; the object the client gets has the four fields of
\* the source's record at that time, and a source's record only ever changes
\* to the status, lastCheck, latency and message of one updateHealth.
C16_SnapshotIsACopy ==
  [][/\ (snapshot.taken /\ snapshot'.taken /\ snapshot'.value # snapshot.value)
          => health' = health
     /\ (snapshot.taken /\ health' # health)
          => snapshot'.taken /\ snapshot'.value = snapshot.value
     /\ (~snapshot.taken /\ snapshot'.taken)
          => /\ snapshot'.value = health[snapshot'.source]
             /\ health' = health
     /\ \A n \in SourceNames :
          health'[n] # health[n] => health'[n] \in OneUpdate(n)
    ]_vars

\* C16, witness: the client took the health of the Sarf source before any
\* update, the source's health has since been updated to degraded, and the
\* client has written failed to the object it got: the object keeps the
\* lastCheck of the time it was taken and the source does not show the write.
C16_Witness ==
  /\ snapshot.taken
  /\ snapshot.source = Sarf
  /\ snapshot.value.lastCheck = 0
  /\ snapshot.value.latency = 0
  /\ snapshot.value.status = "failed"
  /\ health[Sarf].status = "degraded"
  /\ health[Sarf].lastCheck > 0

\* The ids of a list.
IdsOf(ids) == {ids[i] : i \in 1..Len(ids)}

\* C17, as stated: when getStandardizedData has resolved with a dataset D,
\* getAssetData(ids) resolves with the mapping from id to D's asset for
\* exactly the ids that are requested and present in D.
C17_Original ==
  assetData.done
    => LET D == calls["c1"].result.assets IN
       assetData.result = [id \in IdsOf(assetData.ids) \cap DOMAIN D |-> D[id]]

\* C18, as stated: no asset with an empty rates mapping appears in the
\* dataset mergeData returns, which is the dataset getStandardizedData puts
\* in the cache and returns, even when a source's dataset holds an asset
\* whose rates mapping is empty.
C18_Original ==
  mergeOut.done
    => \A id \in DOMAIN mergeOut.assets : DOMAIN mergeOut.assets[id].rates # {}

\* The cycle of c ends in this step and the merge of its fetched datasets
\* has at least one asset.
EndsNonEmpty(c) ==
  /\ EndsCycle(c)
  /\ DOMAIN mergeData(FetchedAssets(calls'[c].attempts)) # {}

\* C20: when a cycle ends whose merged dataset has at least one asset, the
\* cache holds from then on a new object with the merged assets in place of
\* the object it held, cacheExpiry is the time of the step plus
\* cacheTimeoutMs, and the call returns the object the cache now holds.
C20_NonEmptyMergeReplacesCache ==
  [][\A c \in DOMAIN calls :
       EndsNonEmpty(c)
         => /\ cachedData'.assets = mergeData(FetchedAssets(calls'[c].attempts))
            /\ cachedData' # Null
            /\ cachedData'.oid \notin LiveOids
            /\ cacheExpiry' = now + config.cacheTimeoutMs
            /\ now' = now
            /\ calls'[c].pc = "returned"
            /\ calls'[c].result = cachedData']_vars

\* C20, witness: a cycle that ended after the first dataset had expired has
\* put a second object in the cache, the caller holds that object, and it
\* expires cacheTimeoutMs from now.
C20_Witness ==
  \E c \in DOMAIN calls :
    /\ calls[c].pc = "returned"
    /\ calls[c].storedAt = now
    /\ now > 0
    /\ \E i \in 1..Len(calls[c].attempts) : calls[c].attempts[i].outcome = "fetched"
    /\ cachedData.oid = 2
    /\ DOMAIN cachedData.assets # {}
    /\ calls[c].result = cachedData
    /\ cacheExpiry = now + config.cacheTimeoutMs

\* The assets are the whole merge of the datasets fetched in the attempts:
\* every asset id of every fetched dataset, each with every rate type the
\* fetched datasets supply for it, at the value of the last of them.
IsCompleteMerge(assets, att) ==
  LET F == {i \in 1..Len(att) : att[i].outcome = "fetched"}
      With(id) == {i \in F : id \in DOMAIN att[i].assets}
      WithRate(id, t) == {i \in With(id) : t \in DOMAIN att[i].assets[id].rates}
      Last(S) == CHOOSE i \in S : \A j \in S : j <= i
  IN /\ DOMAIN assets = UNION {DOMAIN att[i].assets : i \in F}
     /\ \A id \in DOMAIN assets :
          /\ DOMAIN assets[id].rates =
               UNION {DOMAIN att[i].assets[id].rates : i \in With(id)}
          /\ \A t \in DOMAIN assets[id].rates :
               assets[id].rates[t] = att[Last(WithRate(id, t))].assets[id].rates[t]

\* C19: under every interleaving of the calls and fetch cycles of two
\* callers, the cache changes only in the step that ends a cycle, and then
\* to a new object that holds the whole merge of the datasets that cycle
\* fetched; a dataset a call returns (the one getAssetData reads) is the
\* object of the cache; and no object a caller holds is changed by a later
\* merge: an object with the identity of the cached one has its content.
C19_NoPartialMergeObserved ==
  [][/\ cachedData' # cachedData
          => \E c \in DOMAIN calls :
               /\ EndsCycle(c)
               /\ cachedData'.oid \notin LiveOids
               /\ IsCompleteMerge(cachedData'.assets, calls'[c].attempts)
               /\ calls'[c].result = cachedData'
     /\ \A c \in DOMAIN calls :
          /\ (calls'[c] # calls[c] /\ calls'[c].pc = "returned")
               => /\ calls'[c].result = cachedData'
                  /\ cachedData' # Null
          /\ calls'[c].result.oid = cachedData'.oid
               => calls'[c].result = cachedData'
          /\ (calls'[c].pc = "returned" /\ calls[c].pc = "returned"
                /\ calls'[c].result.oid = calls[c].result.oid)
               => calls'[c].result = calls[c].result
    ]_vars

\* C19, witness: while one caller's cycle was under way the other caller's
\* cycle ended, both at the same time of the clock; both cycles have stored
\* their merge of the datasets of both sources, the first caller holds the
\* first object and the cache the second.
C19_Witness ==
  \E c, d \in DOMAIN calls :
    /\ c # d
    /\ calls[c].pc = "returned"
    /\ calls[d].pc = "returned"
    /\ calls[c].storedAt >= 0
    /\ calls[d].storedAt = calls[c].storedAt
    /\ calls[c].result.oid # calls[d].result.oid
    /\ calls[d].result = cachedData
    /\ DOMAIN calls[c].result.assets = {"USD_EGP", "OIL_WTI", "GOLD_XAU"}
    /\ DOMAIN cachedData.assets = {"USD_EGP", "OIL_WTI", "GOLD_XAU"}

\* C21: whatever the outcomes of the sources of a cycle (skipped, threw,
\* fetched with or without assets), a call of getStandardizedData ends in one
\* of three ways only: it returns the object newly put in the cache, which
\* holds the merge of the fetched datasets; it returns the object that was
\* cached already; or it throws the 'unavailable' error, nothing being
\* cached. It never throws the error of a source.
C21_NoSourceErrorEscapes ==
  [][\A c \in DOMAIN calls :
       (calls'[c] # calls[c] /\ calls'[c].pc \in {"returned", "threw"})
         => \/ /\ calls'[c].pc = "returned"
               /\ cachedData' # cachedData
               /\ calls'[c].result = cachedData'
               /\ cachedData'.assets = mergeData(FetchedAssets(calls'[c].attempts))
               /\ DOMAIN cachedData'.assets # {}
            \/ /\ calls'[c].pc = "returned"
               /\ cachedData # Null
               /\ cachedData' = cachedData
               /\ calls'[c].result = cachedData
            \/ /\ calls'[c].pc = "threw"
               /\ calls'[c].error = UnavailableError
               /\ calls'[c].result = Null
               /\ cachedData = Null
               /\ cachedData' = Null]_vars

\* C21, witness: of three sources the first and the third threw and the
\* second returned an empty dataset, with nothing cached: the call threw the
\* 'unavailable' error, and the errors of the sources stayed in the cycle.
C21_Witness ==
  \E c \in DOMAIN calls :
    /\ calls[c].pc = "threw"
    /\ Len(calls[c].attempts) = 3
    /\ calls[c].attempts[1].outcome = "threw"
    /\ calls[c].attempts[1].error = TaggedError(sources[1], "The operation was aborted due to timeout")
    /\ calls[c].attempts[2].outcome = "fetched"
    /\ calls[c].attempts[2].assets = EmptyMap
    /\ calls[c].attempts[3].outcome = "threw"
    /\ calls[c].error = UnavailableError
    /\ cachedData = Null

\* A round of health checks starts in this step.
StartsRound == probes'.due # probes.due

\* C22: when runHealthChecks runs, checkHealth is called on every source of
\* the list, the ones that report failed too: each of them is then awaited
\* (or, the mock source, has reported at once); and the round is over exactly
\* when none of these checks is still to settle.
C22_HealthChecksCoverEverySource ==
  [][/\ StartsRound
          => /\ \A n \in Listed :
                  \/ n \in probes'.pending
                  \/ n = Mock /\ health'[n].lastCheck = now
             /\ probes'.startTime = now
     /\ probes'.round <=> probes'.pending # {}
     /\ ~StartsRound => probes'.pending \subseteq probes.pending
    ]_vars

\* C22, witness: a round is under way in which the check of the first
\* source has settled and the check of the second source, which reported
\* failed when the round started, is still awaited.
C22_Witness ==
  /\ probes.round
  /\ Len(sources) = 2
  /\ sources[1] \notin probes.pending
  /\ health[sources[1]].lastCheck >= probes.startTime
  /\ sources[2] \in probes.pending
  /\ health[sources[2]].status = "failed"
  /\ health[sources[2]].lastCheck < probes.startTime

\* C23: a round of health checks leaves the cache alone and does not hold
\* up the calls. The step that starts a round and the steps in which its
\* checks settle leave cachedData, cacheExpiry and every call as they are;
\* and while a round is under way a caller that is not in a call can call
\* getStandardizedData, and the fetch a call awaits can settle and let the
\* call go on.
C23_HealthChecksLeaveDataPath ==
  [][/\ (StartsRound \/ \E n \in SourceNames : ProbeSettles(n))
          => UNCHANGED <<cachedData, cacheExpiry, calls>>
     /\ probes.round
          => \A c \in DOMAIN calls :
               /\ calls[c].pc \in {"idle", "returned", "threw"} => ENABLED Call(c)
               /\ calls[c].pc = "fetching" => ENABLED FetchSettles(c)
    ]_vars

\* C23, witness: a round of health checks started at an earlier time is
\* still waiting for the check of the first source; after it started, a call
\* was made that fetched the first source, went through its cycle and has
\* returned the dataset it put in the cache.
C23_Witness ==
  \E c \in DOMAIN calls :
    /\ probes.round
    /\ sources[1] \in probes.pending
    /\ health[sources[1]].lastCheck - health[sources[1]].latency > probes.startTime
    /\ calls[c].pc = "returned"
    /\ calls[c].storedAt = now
    /\ calls[c].attempts[1].outcome = "fetched"
    /\ calls[c].result = cachedData
    /\ cacheExpiry = now + config.cacheTimeoutMs

\* A fetchStandardizedData on source n settles in this step.
FetchSettlesOn(n) ==
  \E c \in DOMAIN calls :
    /\ calls[c].pc = "fetching"
    /\ sources[calls[c].idx] = n
    /\ calls'[c] # calls[c]

\* The checkHealth of source n runs to its end in this step: its probe
\* settles, or it is the mock's, which awaits nothing.
CheckHealthOn(n) ==
  \/ ProbeSettles(n)
  \/ StartsRound /\ n = Mock /\ n \in Listed

\* C24: every source is constructed healthy with lastCheck 0, and the health
\* record of a source changes only in a step in which a
\* fetchStandardizedData or a checkHealth of that very source ends: a call
\* served from the cache, a reading of the service health (which calls
\* getHealth on every source) and the fetches and checks of the other
\* sources leave it as it is.
C24_HealthChangesOnlyByOwnOperations ==
  /\ \A n \in SourceNames : health[n] = InitialHealth(n)
  /\ [][/\ \A n \in SourceNames :
             health'[n] # health[n] => FetchSettlesOn(n) \/ CheckHealthOn(n)
        /\ serviceHealth' # serviceHealth => health' = health
        /\ (\E c \in DOMAIN calls : Calls(c) /\ IsCacheHit) => health' = health
       ]_vars

\* C24, witness: the fetch of the first source has failed and left it
\* degraded, the service health has been read since, and the second source,
\* whose fetch is awaited, is still healthy with lastCheck 0.
C24_Witness ==
  \E c \in DOMAIN calls :
    /\ calls[c].pc = "fetching"
    /\ calls[c].idx = 2
    /\ health[sources[1]].status = "degraded"
    /\ serviceHealth.read
    /\ serviceHealth.status = "degraded"
    /\ serviceHealth.sources[1].status = "degraded"
    /\ health[sources[2]] = InitialHealth(sources[2])

\* C25: every getInstance call returns the same ExchangeService instance,
\* and over the life of the process at most one DataOrchestrator and at most
\* one health-check timer are created: exactly one of each once getInstance
\* has been called.
C25_OneInstance ==
  /\ facade.orchestrators <= 1
  /\ facade.timers <= 1
  /\ \A i \in 1..Len(facade.returned) :
       /\ facade.returned[i] # 0
       /\ facade.returned[i] = facade.returned[1]
       /\ facade.returned[i] = facade.instance
  /\ facade.returned # << >>
       => facade.orchestrators = 1 /\ facade.timers = 1

\* C25, witness: getInstance was called, the orchestrator served a call and
\* the timer ran a round of health checks, and getInstance was called again:
\* both calls returned the one instance.
C25_Witness ==
  /\ Len(facade.returned) >= 2
  /\ facade.returned[2] = facade.returned[1]
  /\ facade.orchestrators = 1
  /\ facade.timers = 1
  /\ cachedData # Null
  /\ probes.due > config.healthCheckIntervalMs

\* The rates the runs of the adapter emitted.
EmittedRates ==
  {adapted[k].assets[id].rates[t] :
     <<k, id, t>> \in {x \in (1..Len(adapted)) \X {"USD_EGP", "EUR_EGP", "USD_DZD",
                                                  "EUR_DZD", "OIL_WTI", "GOLD_XAU"}
                                             \X RateType :
                         /\ ~adapted[x[1]].threw
                         /\ x[2] \in DOMAIN adapted[x[1]].assets
                         /\ x[3] \in DOMAIN adapted[x[1]].assets[x[2]].rates}}

\* C26, as stated: an entry of a raw payload that lacks a numeric price
\* field produces no asset, so the buying, selling and midRate of every rate
\* an adapter emits are numbers.
C26_Original ==
  \A r \in EmittedRates :
    /\ r.buying.kind = "number"
    /\ r.selling.kind = "number"
    /\ r.midRate.kind = "number"

\* The rate type of each reference source.
SourceRateType(name) == IF name = Mock THEN "market" ELSE "parallel_market"

\* The identifiers the native keys of the payload stand for: the codes of a
\* Sarf payload with _EGP, codes of the Forex map with _DZD, the ids of the
\* commodities.
KeyIdentifiers ==
  CASE raw.source = Sarf ->
         IF raw.data.rates = undefined
         THEN {}
         ELSE {[usd |-> "USD_EGP", eur |-> "EUR_EGP"][code] :
                 code \in DOMAIN raw.data.rates.entries}
    [] raw.source = Forex -> {"EUR_DZD", "USD_DZD"}
    [] OTHER ->
         {raw.data.commodities.items[i].id :
            i \in 1..Len(raw.data.commodities.items)}

\* C27: every asset a reference adapter emits has exactly one rate, of the
\* rate type of its source (parallel_market for Sarf and ForexAlgerie, market
\* for the mock), under the identifier its native key stands for (every key
\* of a Sarf or mock payload giving one); and two runs of the adapter on the
\* same payload, at different times, emit the same identifiers with the same
\* rate types.
C27_OneRateTypeAndKeyedIdentifier ==
  \A k \in 1..Len(adapted) :
    ~adapted[k].threw
      => /\ \A id \in DOMAIN adapted[k].assets :
              /\ DOMAIN adapted[k].assets[id].rates = {SourceRateType(raw.source)}
              /\ adapted[k].assets[id].identifier = id
              /\ id \in KeyIdentifiers
         /\ raw.source # Forex => DOMAIN adapted[k].assets = KeyIdentifiers
         /\ \A l \in 1..Len(adapted) :
              /\ ~adapted[l].threw
              /\ DOMAIN adapted[l].assets = DOMAIN adapted[k].assets
              /\ \A id \in DOMAIN adapted[k].assets :
                   DOMAIN adapted[l].assets[id].rates
                     = DOMAIN adapted[k].assets[id].rates

\* C27, witness: the Sarf adapter has run twice, at two times, on a payload
\* with the codes usd and eur: both runs emitted USD_EGP and EUR_EGP, each
\* with its parallel-market rate, with two timestamps.
C27_Witness ==
  /\ raw.source = Sarf
  /\ Len(adapted) = 2
  /\ ~adapted[1].threw
  /\ DOMAIN adapted[1].assets = {"USD_EGP", "EUR_EGP"}
  /\ DOMAIN adapted[2].assets = {"USD_EGP", "EUR_EGP"}
  /\ DOMAIN adapted[2].assets["EUR_EGP"].rates = {"parallel_market"}
  /\ adapted[1].assets["USD_EGP"].timestamp # adapted[2].assets["USD_EGP"].timestamp

\* The payload has the overall shape the adapter of its source reads: an
\* object with its rates, a page, an object with its list of commodities.
UsableShape ==
  CASE raw.source = Sarf -> raw.data # null /\ raw.data.rates # undefined
    [] raw.source = Forex -> TRUE
    [] OTHER -> raw.data.commodities # undefined

\* No entry of the payload has what an asset is made of: a Sarf entry its
\* buying and selling numbers, a currency of the page its two prices, a
\* commodity its price.
NoEntryConvertible ==
  CASE raw.source = Sarf ->
         \A code \in DOMAIN raw.data.rates.entries :
           LET e == raw.data.rates.entries[code]
           IN IF e = null THEN TRUE
              ELSE e.buying.kind # "number" \/ e.selling.kind # "number"
    [] raw.source = Forex ->
         \A i \in 1..Len(ForexCodes) :
           \E id \in {toLowerCase(ForexCodes[i]) \o "Buy",
                      toLowerCase(ForexCodes[i]) \o "Sell"} :
             \/ id \notin DOMAIN raw.data
             \/ raw.data[id] \notin {"245.50", "247.50"}
    [] OTHER ->
         \A i \in 1..Len(raw.data.commodities.items) :
           LET e == raw.data.commodities.items[i]
           IN IF e = null THEN TRUE ELSE e.price.kind # "number"

\* C28: when the payload has a usable shape and none of its entries can be
\* turned into an asset, the adapter returns an empty dataset and does not
\* throw, and the health of the source is healthy after the fetch.
C28_Original ==
  \A k \in 1..Len(adapted) :
    (UsableShape /\ NoEntryConvertible)
      => /\ ~adapted[k].threw
         /\ DOMAIN adapted[k].assets = {}
         /\ health[raw.source].status = "healthy"

(***************************************************************************)
(* The log buffer and its readers.                                         *)
(***************************************************************************)
InitLogs == InitWith(<<Sarf, Mock>>, {"c1"})

\* The texts the components of the model log.
LogTexts == {"first", "second"}

\* Logger.debug, info, warn, error of a component.
LoggerLog(level, text) ==
  /\ logs' = log(logs, now, level, <<"Client", "c1">>, <<text, "">>)
  /\ UNCHANGED <<sources, health, cachedData, cacheExpiry, now, calls, probes,
                 mergeIn, mergeOut, serviceHealth, assetData, snapshot,
                 facade, raw, adapted, logsRead, heap>>

\* ExchangeService.getLogs(level): what the client is handed.
ReadLogs(level) ==
  /\ logsRead' = [done |-> TRUE, level |-> level, entries |-> getLogs(level)]
  /\ UNCHANGED <<sources, health, cachedData, cacheExpiry, now, calls, probes,
                 logs, mergeIn, mergeOut, serviceHealth, assetData, snapshot,
                 facade, raw, adapted, heap>>

NextLogs ==
  \/ \E level \in LogLevel, text \in LogTexts : LoggerLog(level, text)
  \/ \E level \in LogLevel \cup {""} : ReadLogs(level)

SpecLogs == InitLogs /\ [][NextLogs]_vars

\* The severities, from the least to the most severe.
Severities == <<"debug", "info", "warn", "error">>

Rank(level) == CHOOSE i \in 1..Len(Severities) : Severities[i] = level

\* The positions of the buffer a reader with this level is to be handed.
Wanted(level) ==
  {j \in 1..Len(logs) : level = "" \/ Rank(logs[j].level) >= Rank(level)}

\* C29: a getLogs step hands the client exactly the retained entries whose
\* severity is at or above the level asked for (every retained entry when no
\* level is given), each once, in the order of the buffer, which is the
\* order they were logged in.
C29_GetLogsFiltersInOrder ==
  [][logsRead' # logsRead
       => \E f \in [1..Len(logsRead'.entries) -> 1..Len(logs)] :
            /\ \A i \in DOMAIN f : logsRead'.entries[i] = logs[f[i]]
            /\ \A i, j \in DOMAIN f : i < j => f[i] < f[j]
            /\ {f[i] : i \in DOMAIN f} = Wanted(logsRead'.level)]_vars

\* C29, witness: with a less severe entry logged before an error, getLogs
\* for warn handed back the error alone.
C29_Witness ==
  /\ logsRead.done
  /\ logsRead.level = "warn"
  /\ Len(logs) = 2
  /\ logs[1].level = "info"
  /\ logs[2].level = "error"
  /\ logsRead.entries = <<logs[2]>>

\* This step ends a fetch cycle of c whose merged dataset has no asset.
EndsEmpty(c) ==
  /\ EndsCycle(c)
  /\ DOMAIN mergeData(FetchedAssets(calls'[c].attempts)) = {}

\* This step starts a fetch cycle for c: its first source is being fetched,
\* or every source was passed over as failed and the cycle ended at once.
StartsCycle(c) ==
  \/ /\ calls'[c].pc = "fetching"
     /\ calls'[c].startTime = now
  \/ /\ calls'[c].pc \in {"returned", "threw"}
     /\ Len(calls'[c].attempts) = Len(sources)
     /\ \A i \in 1..Len(sources) : calls'[c].attempts[i].outcome = "skipped"

\* C30: a cycle that ends with no asset in its merged dataset leaves
\* cachedData and cacheExpiry as they were; and a getStandardizedData call
\* made while the cached dataset is expired starts a fetch cycle and is not
\* answered with the fresh-cache entry in the log.
C30_EmptyCycleLeavesCacheExpired ==
  [][\A c \in DOMAIN calls :
       /\ EndsEmpty(c) => UNCHANGED <<cachedData, cacheExpiry>>
       /\ (Calls(c) /\ cachedData # Null /\ now >= cacheExpiry)
            => /\ StartsCycle(c)
               /\ ~LastLogIs(logs', "debug", Orchestrator,
                             "Returning fresh data from cache.")]_vars

\* C30, witness: the cached dataset has expired and a cycle in which one
\* source returned an empty dataset and the other threw has ended on the
\* expired dataset: the cache still holds it, expired as before.
C30_Witness ==
  \E c \in DOMAIN calls :
    /\ cachedData # Null
    /\ now >= cacheExpiry
    /\ calls[c].pc = "returned"
    /\ calls[c].result = cachedData
    /\ Len(calls[c].attempts) = Len(sources)
    /\ \E i \in 1..Len(sources) :
         /\ calls[c].attempts[i].outcome = "fetched"
         /\ DOMAIN calls[c].attempts[i].assets = {}
    /\ \E i \in 1..Len(sources) : calls[c].attempts[i].outcome = "threw"
    /\ LastLogIs(logs, "error", Orchestrator, StaleMessage)

(***************************************************************************)
(* Progress: every executeFetch settles.                                   *)
(***************************************************************************)
SettleFairness_None == TRUE

\* The fetch of executeFetch is bounded by AbortSignal.timeout (5000 ms for
\* Sarf, 8000 ms for ForexAlgerie) and the mock waits 50 ms: a fetch that is
\* under way settles, by returning or by throwing.
SettleFairness == WF_vars(FetchSettles("c1"))

SpecPairLive == InitPair /\ [][Next]_vars /\ SettleFairness

\* C31: when every executeFetch that is under way settles, a
\* getStandardizedData call that is fetching leads to that call having
\* returned a dataset or thrown.
C31_EveryCallSettles ==
  (calls["c1"].pc = "fetching") ~> (calls["c1"].pc \in {"returned", "threw"})

\* C31, witness: a call has passed both sources, the first of which hit its
\* timeout, and has returned the dataset of the second.
C31_Witness ==
  /\ calls["c1"].pc = "returned"
  /\ Len(calls["c1"].attempts) = 2
  /\ calls["c1"].attempts[1].outcome = "threw"
  /\ calls["c1"].attempts[1].error
       = TaggedError(Sarf, "The operation was aborted due to timeout")
  /\ calls["c1"].attempts[2].outcome = "fetched"
  /\ DOMAIN calls["c1"].result.assets # {}

\* C32: in every reachable state the cache is absent or holds a dataset with
\* at least one asset, and cacheExpiry is 0 exactly when the cache is absent.
C32_CacheNeverEmpty ==
  /\ cachedData # Null => DOMAIN cachedData.assets # {}
  /\ (cacheExpiry = 0) <=> (cachedData = Null)

\* C32, witness: a cycle in which a source returned an empty dataset and the
\* other threw has ended with nothing cached: the call threw, and the cache
\* is still absent with cacheExpiry 0.
C32_Witness ==
  /\ calls["c1"].pc = "threw"
  /\ calls["c1"].error = UnavailableError
  /\ Len(calls["c1"].attempts) = Len(sources)
  /\ \E i \in 1..Len(sources) :
       /\ calls["c1"].attempts[i].outcome = "fetched"
       /\ DOMAIN calls["c1"].attempts[i].assets = {}
  /\ cachedData = Null
  /\ cacheExpiry = 0

\* This step is a getStandardizedData call of c that misses the cache while
\* the cycle of another caller is under way.
JoinsOverlap(c) ==
  /\ Calls(c)
  /\ ~(cachedData # Null /\ now < cacheExpiry)
  /\ \E d \in DOMAIN calls \ {c} : calls[d].pc = "fetching"

\* C33: a call that misses the cache while another cycle is under way starts
\* a cycle of its own at the first source, with nothing fetched yet; every
\* step of a cycle advances that cycle alone; each cycle passes every source;
\* and whenever a cycle ends with a non-empty merge, whatever another cycle
\* has stored since it began, cachedData and cacheExpiry become the ones it
\* writes: the merge of its own fetches, expiring cacheTimeoutMs from then.
C33_OverlappingCyclesLastWriterWins ==
  [][\A c \in DOMAIN calls :
       /\ JoinsOverlap(c)
            => /\ calls'[c].pc = "fetching"
               /\ calls'[c].idx = 1
               /\ calls'[c].successfulFetches = << >>
               /\ calls'[c].attempts = << >>
       /\ calls'[c] # calls[c]
            => \A d \in DOMAIN calls \ {c} : calls'[d] = calls[d]
       /\ EndsCycle(c)
            => \A i \in 1..Len(sources) :
                 calls'[c].attempts[i].source = sources[i]
       /\ EndsNonEmpty(c)
            => /\ cachedData'.assets
                    = mergeData(FetchedAssets(calls'[c].attempts))
               /\ cachedData' = calls'[c].result
               /\ \A d \in DOMAIN calls \ {c} :
                    calls[d].result # Null
                      => cachedData'.oid # calls[d].result.oid
               /\ cacheExpiry' = now + config.cacheTimeoutMs]_vars

\* C33, witness: both callers have run a full cycle and each has returned an
\* object of its own; c1's first fetch settled before c2's, c2 stored its
\* dataset first, and the cache holds the object and the expiry of c1, which
\* stored last.
C33_Witness ==
  /\ calls["c1"].pc = "returned"
  /\ calls["c2"].pc = "returned"
  /\ Len(calls["c1"].attempts) = 2
  /\ Len(calls["c2"].attempts) = 2
  /\ calls["c1"].attempts[1].outcome = "fetched"
  /\ calls["c2"].attempts[1].outcome = "fetched"
  /\ "USD_EGP" \in DOMAIN calls["c1"].attempts[1].assets
  /\ "USD_EGP" \in DOMAIN calls["c2"].attempts[1].assets
  /\ calls["c1"].attempts[1].assets["USD_EGP"].timestamp
       < calls["c2"].attempts[1].assets["USD_EGP"].timestamp
  /\ calls["c2"].storedAt >= 0
  /\ calls["c2"].storedAt < calls["c1"].storedAt
  /\ calls["c1"].result.oid # calls["c2"].result.oid
  /\ cachedData = calls["c1"].result
  /\ cacheExpiry = calls["c1"].storedAt + config.cacheTimeoutMs

\* C34: the health record of a source is the one written by the fetch or
\* the health check of that source that completed last, whatever the record
\* was before: a fetch that returns leaves it healthy, a fetch that throws
\* leaves it degraded with the error as message, the check of the mock
\* leaves it healthy, a check that settles leaves it healthy or degraded
\* with the message of its outcome, each with lastCheck the time of the
\* completion; and no other step changes it.
C34_HealthReflectsLatestCompletion ==
  [][\A n \in Listed :
       /\ \A c \in DOMAIN calls :
            (Settles(c, "fetched") /\ sources[calls[c].idx] = n)
              => /\ health'[n].status = "healthy"
                 /\ health'[n].lastCheck = now
       /\ \A c \in DOMAIN calls :
            (Settles(c, "threw") /\ sources[calls[c].idx] = n)
              => /\ health'[n].status = "degraded"
                 /\ health'[n].message \in FetchErrors(n)
                 /\ health'[n].lastCheck = now
       /\ (StartsRound /\ n = Mock)
            => /\ health'[n].status = "healthy"
               /\ health'[n].message = "Mock source is always healthy."
               /\ health'[n].latency = 20
               /\ health'[n].lastCheck = now
       /\ ProbeSettles(n)
            => /\ health'[n].lastCheck = now
               /\ health'[n].latency = now - probes.startTime
               /\ \/ /\ health'[n].status = "healthy"
                     /\ health'[n].message \in ProbeOkMessages
                  \/ /\ health'[n].status = "degraded"
                     /\ health'[n].message \in ProbeErrors(n)
       /\ ~(FetchSettlesOn(n) \/ CheckHealthOn(n)) => health'[n] = health[n]
    ]_vars

\* C34, witness: the fetch of Sarf has thrown in the cycle of a call, a
\* health check of Sarf has succeeded since, and Sarf reports healthy again
\* with the time of the check; the mock, checked in the same round, reports
\* healthy with the message of its check.
C34_Witness ==
  \E i \in 1..Len(calls["c1"].attempts) :
    /\ calls["c1"].attempts[i].source = Sarf
    /\ calls["c1"].attempts[i].outcome = "threw"
    /\ health[Sarf].status = "healthy"
    /\ health[Sarf].message = "OK"
    /\ health[Sarf].lastCheck > 0
    /\ health[Mock].message = "Mock source is always healthy."

(***************************************************************************)
(* The datasets as objects. A dataset, an asset and a rates dictionary are  *)
(* objects of the heap, named by numbers; a dataset maps identifiers to      *)
(* asset objects, an asset holds a reference to its rates object.            *)
(***************************************************************************)
MaxHeapCycles == 2

\* The numbers a source quotes, from one fetch to the next.
HeapQuotes == {1, 2}

\* The rate type under which a source of the heap specification quotes.
HeapRateType(name) == IF name = Bank THEN "official" ELSE "parallel_market"

adaptOnHeap_Reuses(h, name, quote) ==
  IF \E d \in DOMAIN h.datasets :
       \E id \in DOMAIN h.datasets[d] : h.assets[h.datasets[d][id]].source = name
  THEN [heap |-> h,
        ds |-> CHOOSE d \in DOMAIN h.datasets :
                 /\ \E id \in DOMAIN h.datasets[d] :
                      h.assets[h.datasets[d][id]].source = name
                 /\ \A e \in DOMAIN h.datasets :
                      (\E id \in DOMAIN h.datasets[e] :
                         h.assets[h.datasets[e][id]].source = name) => d <= e]
  ELSE [heap |-> [h EXCEPT
                    !.next = @ + 3,
                    !.rates = @ @@ (h.next :> Single(HeapRateType(name), quote)),
                    !.assets = @ @@ (h.next + 1 :>
                                       [identifier |-> "USD_EGP", source |-> name,
                                        rates |-> h.next]),
                    !.datasets = @ @@ (h.next + 2 :> Single("USD_EGP", h.next + 1))],
        ds |-> h.next + 2]

\* An adapter run (part_001 lines 25-61, README lines 155-196): the assets
\* object, the asset and its rates dictionary are object literals, so each
\* run allocates three new objects. The result is the heap and the reference
\* to the dataset.
adaptOnHeap(h, name, quote) ==
  [heap |-> [h EXCEPT
               !.next = @ + 3,
               !.rates = @ @@ (h.next :> Single(HeapRateType(name), quote)),
               !.assets = @ @@ (h.next + 1 :>
                                  [identifier |-> "USD_EGP", source |-> name,
                                   rates |-> h.next]),
               !.datasets = @ @@ (h.next + 2 :> Single("USD_EGP", h.next + 1))],
   ds |-> h.next + 2]

\* Lines 88-100 of mergeData for one source dataset: an identifier merged
\* already has the rates of the new asset assigned INTO the rates object of
\* the asset that is there (line 95); a new identifier gets the reference to
\* the asset of the source (line 98).
RECURSIVE mergeAssetsOnHeap(_, _, _, _)
mergeAssetsOnHeap(h, merged, ds, ids) ==
  IF ids = {}
  THEN [heap |-> h, merged |-> merged]
  ELSE LET assetId == CHOOSE x \in ids : TRUE
           newAsset == h.datasets[ds][assetId]
       IN IF assetId \in DOMAIN merged
          THEN LET existingAsset == merged[assetId]
               IN mergeAssetsOnHeap(
                    [h EXCEPT !.rates[h.assets[existingAsset].rates] =
                                ObjectAssign(@, h.rates[h.assets[newAsset].rates])],
                    merged, ds, ids \ {assetId})
          ELSE mergeAssetsOnHeap(h, merged @@ (assetId :> newAsset), ds,
                                 ids \ {assetId})

\* Lines 84-103 on the heap, over the references of the datasets fetched.
RECURSIVE mergeDataOnHeap(_, _, _)
mergeDataOnHeap(h, merged, sourcesData) ==
  IF sourcesData = << >>
  THEN [heap |-> h, merged |-> merged]
  ELSE LET one == mergeAssetsOnHeap(h, merged, Head(sourcesData),
                                    DOMAIN h.datasets[Head(sourcesData)])
       IN mergeDataOnHeap(one.heap, one.merged, Tail(sourcesData))

\* What a holder of the reference ds reads through it: the assets with their
\* rates.
Deep(h, ds) ==
  [id \in DOMAIN h.datasets[ds] |->
     [identifier |-> h.assets[h.datasets[ds][id]].identifier,
      source |-> h.assets[h.datasets[ds][id]].source,
      rates |-> h.rates[h.assets[h.datasets[ds][id]].rates]]]

HeapFrame ==
  UNCHANGED <<sources, health, cachedData, cacheExpiry, now, calls, probes,
              logs, mergeIn, mergeOut, clientVars, facade, raw, adapted,
              logsRead>>

\* Lines 35-38: the fetch of the source at the position of the loop returns
\* the dataset its adapter built.
HeapFetchReturns(quote) ==
  /\ heap.cycles < MaxHeapCycles
  /\ heap.pos <= Len(sources)
  /\ LET built == adaptOnHeap(heap, sources[heap.pos], quote)
     IN heap' = [built.heap EXCEPT !.pos = @ + 1,
                                   !.pending = Append(@, built.ds)]
  /\ HeapFrame

\* Lines 39-43: the fetch throws.
HeapFetchThrows ==
  /\ heap.cycles < MaxHeapCycles
  /\ heap.pos <= Len(sources)
  /\ heap' = [heap EXCEPT !.pos = @ + 1]
  /\ HeapFrame

\* Lines 46-66: the merge, and the dataset the call returns: the cached one
\* when the merge is empty and one is cached, the merged one, which the
\* cache keeps, otherwise. The dataset returned is recorded with what its
\* holder read through it at that time.
HeapFinish ==
  /\ heap.cycles < MaxHeapCycles
  /\ heap.pos > Len(sources)
  /\ LET m == mergeDataOnHeap(heap, EmptyMap, heap.pending)
         d == m.heap.next
         stored == [m.heap EXCEPT !.next = @ + 1,
                                  !.datasets = @ @@ (d :> m.merged),
                                  !.cached = d]
     IN heap' =
          IF DOMAIN m.merged = {}
          THEN [heap EXCEPT
                  !.pos = 1, !.pending = << >>, !.cycles = @ + 1,
                  !.returned = IF heap.cached # 0
                               THEN @ \cup {[ds |-> heap.cached,
                                             content |-> Deep(heap, heap.cached)]}
                               ELSE @]
          ELSE [stored EXCEPT
                  !.pos = 1, !.pending = << >>, !.cycles = @ + 1,
                  !.returned = @ \cup {[ds |-> d, content |-> Deep(stored, d)]}]
  /\ HeapFrame

InitHeap == InitPair

NextHeap ==
  \/ \E quote \in HeapQuotes : HeapFetchReturns(quote)
  \/ HeapFetchThrows
  \/ HeapFinish

SpecHeap == InitHeap /\ [][NextHeap]_vars

\* C35: with adapters that build new objects on each fetch, every dataset
\* that getStandardizedData has returned still reads, through the reference
\* its holder has, as it read when it was returned: no later cycle or merge
\* has written to its assets or to their rates.
C35_ReturnedDatasetsKeepContent ==
  \A r \in heap.returned : Deep(heap, r.ds) = r.content

\* C35, witness: two cycles have each merged an asset quoted by both sources
\* (the second source's rate assigned into the rates object of the first
\* source's asset) and returned it; the two datasets returned are two
\* objects with different quotes.
C35_Witness ==
  \E r1, r2 \in heap.returned :
    /\ r1.ds < r2.ds
    /\ DOMAIN r1.content["USD_EGP"].rates = {"parallel_market", "official"}
    /\ DOMAIN r2.content["USD_EGP"].rates = {"parallel_market", "official"}
    /\ r1.content["USD_EGP"].rates["official"]
         # r2.content["USD_EGP"].rates["official"]
    /\ heap.cached = r2.ds

\* In this step c invokes fetchStandardizedData of n.
StartsFetchOf(c, n) ==
  /\ calls'[c].pc = "fetching"
  /\ sources[calls'[c].idx] = n
  /\ calls[c].pc # "fetching" \/ calls'[c].idx # calls[c].idx

\* C36, as stated: while a source reports failed no call invokes its
\* fetchStandardizedData, the rounds of health checks still check it, and
\* it stops reporting failed only in a step of its checkHealth.
C36_Original ==
  [][\A n \in Listed :
       health[n].status = "failed"
         => /\ \A c \in DOMAIN calls : ~StartsFetchOf(c, n)
            /\ StartsRound => n \in probes'.pending
            /\ health'[n].status # "failed" => CheckHealthOn(n)]_vars

\* C36, amended: while a source reports failed no call invokes its
\* fetchStandardizedData and the rounds of health checks still check it; it
\* stops reporting failed only in a step of its checkHealth or when a fetch
\* of it settles, which is then a fetch invoked before it reported failed.
C36_FailedLeavesByCheckOrFetchInFlight ==
  [][\A n \in Listed :
       health[n].status = "failed"
         => /\ \A c \in DOMAIN calls : ~StartsFetchOf(c, n)
            /\ StartsRound => n \in probes'.pending
            /\ health'[n].status # "failed"
                 => CheckHealthOn(n) \/ FetchSettlesOn(n)]_vars

\* C36, witness: a cycle has passed over the second source, which reported
\* failed, and a health check has since made it healthy again.
C36_Witness ==
  /\ Len(calls["c1"].attempts) = 2
  /\ calls["c1"].attempts[2].source = Bank
  /\ calls["c1"].attempts[2].outcome = "skipped"
  /\ health[Bank].status = "healthy"
  /\ health[Bank].lastCheck > 0

(***************************************************************************)
(* The service built without a source.                                     *)
(***************************************************************************)
ServiceSources_Always(mode) == <<Sarf, Mock>>

\* Lines 129-135 of the ExchangeService constructor: the sources of the
\* orchestrator, by the mode of the configuration.
ServiceSources(mode) ==
  IF mode = "production" \/ mode = "hybrid" THEN <<Sarf, Mock>> ELSE << >>

\* AppConfig.mode "demo": neither production nor hybrid.
InitEmpty == InitWith(ServiceSources("demo"), {"c1"})

\* getAssetData when the getStandardizedData it awaits (line 154) has
\* thrown: the reduce is not run and the call rejects with the same error.
GetAssetDataRejects(c, ids) ==
  /\ ~assetData.done
  /\ calls[c].pc = "threw"
  /\ assetData' = [done |-> TRUE, ids |-> ids, result |-> EmptyMap,
                   error |-> calls[c].error]
  /\ UNCHANGED <<unitVars, sources, health, cachedData, cacheExpiry, now, calls,
                 probes, logs, mergeIn, mergeOut, serviceHealth, snapshot>>

NextEmpty ==
  \/ \E c \in DOMAIN calls : Call(c)
  \/ \E c \in DOMAIN calls : \E ids \in IdLists : GetAssetDataRejects(c, ids)
  \/ ReadServiceHealth
  \/ RunHealthChecks
  \/ Tick

SpecEmpty == InitEmpty /\ [][NextEmpty]_vars

\* C37: with a service built without a source, every getStandardizedData
\* call throws the 'unavailable' error and caches nothing, so every
\* getAssetData call rejects with that error and yields no asset; and
\* getServiceHealth reports failed with an empty list of sources.
C37_NoSourcesFailsEverything ==
  [][/\ \A c \in DOMAIN calls :
          Calls(c)
            => /\ calls'[c].pc = "threw"
               /\ calls'[c].error = UnavailableError
               /\ calls'[c].result = Null
               /\ cachedData' = Null
     /\ assetData' # assetData
          => /\ assetData'.error = UnavailableError
             /\ assetData'.result = EmptyMap
     /\ serviceHealth' # serviceHealth
          => /\ serviceHealth'.status = "failed"
             /\ serviceHealth'.sources = << >>]_vars

\* C37, witness: the service has no source, a getAssetData call has been
\* rejected with the 'unavailable' error, and the service health read is
\* failed with no source in it.
C37_Witness ==
  /\ sources = << >>
  /\ assetData.done
  /\ assetData.ids # << >>
  /\ assetData.error = UnavailableError
  /\ serviceHealth.read
  /\ serviceHealth.status = "failed"
  /\ serviceHealth.sources = << >>

\* C38: the log buffer never holds more than maxLogs entries; a log call
\* on a buffer that is not full appends its entry, and on a full buffer it
\* drops the oldest entry and appends its own, so that the entries kept are
\* in the order they were logged in.
C38_LogBufferBounded ==
  /\ Len(logs) <= maxLogs
  /\ [][/\ Len(logs') <= maxLogs
        /\ logs' # logs
             => logs' = IF Len(logs) = maxLogs
                        THEN Append(Tail(logs), logs'[Len(logs')])
                        ELSE Append(logs, logs'[Len(logs')])]_vars

\* C38, witness: a client read a full buffer, and an entry logged since has
\* pushed the oldest entry it read out of the buffer, which is full again.
C38_Witness ==
  /\ logsRead.done
  /\ logsRead.level = ""
  /\ Len(logsRead.entries) = maxLogs
  /\ Len(logs) = maxLogs
  /\ logs = Append(Tail(logsRead.entries), logs[maxLogs])
  /\ logs[maxLogs] # logsRead.entries[1]
  /\ logs # logsRead.entries

====
